---- MODULE Spec2Model ----
(***************************************************************************)
(* Binomial de-Americanization, Black-Scholes implied volatility and       *)
(* per-group Heston calibration, as state machines.                        *)
(*                                                                         *)
(* Fixed-point units.  Prices are integers in units of 1e-8 (so the        *)
(* no-arbitrage tolerance 1e-8 is 1); spot and strike are whole numbers;   *)
(* rates and yields are in units of 1e-5; TTM is in whole years;           *)
(* volatilities are in units of 1e-4 (sigma_floor 1e-3 is 10).             *)
(* Floating-point specials (nan, inf), Python's None and a raised          *)
(* exception of an external call are reserved codes above every number.    *)
(***************************************************************************)
EXTENDS Integers, Sequences, FiniteSets, TLC

VARIABLES
    evaluationDate,  \* ql.Settings.instance().evaluationDate (process-wide)
    \* ---- _deamericanize_price_binomial / _deam_one_tree ----
    row,             \* the quote passed in
    tree,            \* the preferred family argument
    steps,           \* the step count argument
    eval_date,       \* the evaluation date argument
    epc,             \* position in the engine
    tree_try,        \* the list of families to try
    ti,              \* index into tree_try of the current attempt
    L,               \* locals of the current _deam_one_tree call
    ret,             \* (p, err) returned by the last _deam_one_tree call
    result,          \* value returned by _deamericanize_price_binomial
    attempts,        \* history: families handed to _deam_one_tree, in order
    calls,           \* history: kinds of pricing-oracle calls of the current attempt
    amLog,           \* history: evaluations of f made by the last step
    \* ---- _row_bs_iv_from_price ----
    use_deam,        \* the use_deam argument
    ivpc,            \* position in the extractor
    price_for_iv,    \* target price of the implied-volatility solve
    it,              \* bisection iteration counter
    iv,              \* value returned by _row_bs_iv_from_price
    ivcalls,         \* history: what the extractor invoked, in order
    iv_q,            \* the dividend yield the Black-Scholes process was built with
    bis,             \* the solvers' locals: what line 44 returned, and lo, hi, mid, p_mid
    \* ---- calibrate_and_price_heston_european / _calibrate_heston ----
    df,              \* the input frame: index label -> row
    oracle,          \* what the external calls answer for each row and group
    hpc,             \* position in the pipeline
    todo,            \* group keys not yet processed
    gkey,            \* key of the group being processed
    rows,            \* index labels of the current group still to visit
    helpers,         \* helpers built so far for the current group
    model,           \* the fitted model of the current group
    prices,          \* prices computed so far for the current group
    results,         \* the output series: index label -> value
    hlog,            \* history: what happened to each group, rows priced
    run,             \* 1: the call on the full frame, 2: the comparison call
    out1,            \* what call 1 ended with
    \* ---- the pricing oracle as a function, and earlier calls of the engine ----
    orc,             \* <<>>: any answer; else family -> behaviour of the oracle
    runs,            \* what the earlier calls of the engine ended with
    \* ---- core calls running in threads of one process ----
    threads,         \* thread -> its call, evaluation date, position, dates seen
    \* ---- interest_rate_interpolation ----
    curve_series,    \* the curve passed in: (maturity, yield) in the order given
    x_eval,          \* the query maturities
    cpc,             \* position in the function
    xs,              \* sorted maturities
    ys,              \* yields in the order of xs
    spline,          \* the interpolant built
    curve_results,   \* values computed so far
    \* ---- multi_fetcher ----
    cfg,             \* retry_rounds and min_permanent_rounds
    fpc,             \* position in the function
    remaining,       \* tickers not yet resolved
    permanent_hint_counts,
    round,           \* r, the round number
    round_list,      \* tickers of the round still to be fetched
    fetched,         \* tickers whose chains were fetched
    flog,            \* history: per ticker, errors seen and confirmed-permanent rounds
    rt               \* one call of _retry: tries, attempt, position, calls and sleeps

engVars == <<row, tree, steps, eval_date, epc, tree_try, ti, L, ret, result,
             attempts, calls, amLog>>
ivVars  == <<use_deam, ivpc, price_for_iv, it, iv, ivcalls, iv_q, bis>>
hesVars == <<df, oracle, hpc, todo, gkey, rows, helpers, model, prices, results,
             hlog, run, out1>>
detVars   == <<orc, runs>>
curveVars == <<curve_series, x_eval, cpc, xs, ys, spline, curve_results>>
fetchVars == <<cfg, fpc, remaining, permanent_hint_counts, round, round_list,
               fetched, flog, rt>>
auxVars == <<detVars, threads, curveVars, fetchVars>>
vars    == <<evaluationDate, engVars, ivVars, hesVars, auxVars>>

----------------------------------------------------------------------------
(* Floating point and Python values *)

PosInf == 2000000000
NaN    == 2000000001
None   == 2000000002
Throw  == 2000000003

IsNum(x)    == x < PosInf
IsFinite(x) == x # NaN /\ x # PosInf            \* np.isfinite
Lt(a, b)    == a # NaN /\ b # NaN /\ a < b      \* comparisons with nan are False
Le(a, b)    == a # NaN /\ b # NaN /\ a <= b
Gt(a, b)    == Lt(b, a)
Add(a, b)   == IF IsNum(a) /\ IsNum(b) THEN a + b ELSE NaN
Sub(a, b)   == IF IsNum(a) /\ IsNum(b) THEN a - b ELSE NaN
Mul(a, b)   == IF IsNum(a) /\ IsNum(b) THEN a * b ELSE NaN
Abs(a)      == IF IsNum(a) THEN (IF a < 0 THEN -a ELSE a) ELSE a
PyMax(a, b) == IF Gt(b, a) THEN b ELSE a        \* max(a, b): b only if b > a
Max(a, b)   == IF a >= b THEN a ELSE b

\* np.exp(-x) for x = rate * T in units of 1e-5, result in units of 1e-8
ExpNeg(x) ==
    CASE x = NaN    -> NaN
      [] x = 0      -> 100000000
      [] x = 10     -> 99990000
      [] x = 11     -> 99989001
      [] x = -10    -> 100010001
      [] x = -11    -> 100011001
      [] x = 2000   -> 98019867
      [] x = 3000   -> 97044553
      [] x = 100000 -> 36787944

\* str.lower()
Lower(s) ==
    CASE s = "JR"   -> "jr"
      [] s = "Tian" -> "tian"
      [] s = "LR"   -> "lr"
      [] s = "Call" -> "call"
      [] s = "PUT"  -> "put"
      [] OTHER      -> s

----------------------------------------------------------------------------
(* Program constants *)

SigmaFloor  == 10       \* sigma_floor = 1e-3
VolStart    == 3000     \* 0.30
HiStart     == 60000    \* 6.0
MaxExpands  == 12
NoArbEps    == 1        \* 1e-8
QPercentCut == 100000   \* 1.0
QNegligible == 10       \* 1e-4
DefaultSteps == 400
MinHelpers   == 5
BisectIters  == 120
BisectLo     == 0       \* 1e-9, which is below one unit of the extractor's volatility
BisectHi     == 131072  \* 12.0, in units of 12/2^17
PriceTol     == 1       \* 1e-8, in price units

Fallbacks   == <<"jr", "trigeorgis", "tian", "crr", "lr">>
\* the tree types ql.BinomialVanillaEngine knows
QlTreeTypes == {"crr", "coxrossrubinstein", "jr", "jarrowrudd", "eqp",
                "trigeorgis", "tian", "lr", "leisenreimer", "j4", "joshi4"}

----------------------------------------------------------------------------
(* Bounds of the model *)

AmDelta       == 1000   \* |American price - P| when the oracle misses P
MaxBrentEvals == 2      \* evaluations of f made by one root solve
EuPriceA      == 9000000
EuPriceB      == 9500000
EvalDay       == 46000  \* serial number of the evaluation date passed in
IvPrimaryValue == 2500  \* a volatility the primary solver returns
IvBisectValue  == 2600  \* a midpoint the bisection converges at
BisectRoot     == 30000 \* the volatility at which the analytic price meets the target
PriceGrain     == 64    \* volatility units per price unit of the "rising" price
LateFrom       == 170000 \* volatility from which the "late" oracle prices
MaxQuery       == 7      \* largest query maturity, in half years
MaxRetryRounds == 3      \* largest retry_rounds
MaxTries       == 4      \* largest tries of _retry
MaxPermanentRounds == 3  \* largest min_permanent_rounds
MaxThreadEvals == 2     \* oracle evaluations one thread makes
MaxThreadSets  == 2     \* times one thread enters a core function

----------------------------------------------------------------------------
(* Quotes *)

BaseCall == [spot_price |-> 1, strike |-> 1, TTM |-> 1, r |-> 3000,
             dividendYield |-> 2000, midPrice |-> 10450000, optionType |-> "call"]
BasePut  == [BaseCall EXCEPT !.optionType = "put"]
ZeroDivCall == [BaseCall EXCEPT !.dividendYield = 0]

\* around the call bounds [975314, 98019867] of BaseCall, and unusable prices
MidCases == {None, NaN, PosInf, 0, -1, 10450000,
             975312, 975313, 98019868, 98019869, 100000002}
QCases   == {0, 10, 11, -10, -11, 2000, 100000, 200000, NaN}

Quotes ==
    {[b EXCEPT !.midPrice = p] : b \in {BaseCall, ZeroDivCall}, p \in MidCases}
    \cup {[b EXCEPT !.dividendYield = y] : b \in {BaseCall}, y \in QCases}
    \cup {[b EXCEPT !.spot_price = s] : b \in {BaseCall, BasePut, ZeroDivCall}, s \in {0, -1, NaN}}
    \cup {[b EXCEPT !.strike = k] : b \in {BaseCall, BasePut, ZeroDivCall}, k \in {0, NaN}}
    \cup {[b EXCEPT !.TTM = t] : b \in {BaseCall, BasePut, ZeroDivCall}, t \in {0, -1, NaN}}
    \cup {[b EXCEPT !.r = x] : b \in {BaseCall, ZeroDivCall}, x \in {NaN}}
    \cup {[BasePut EXCEPT !.midPrice = p] : p \in {10450000, 97044554, 97044555, 0}}
    \cup {[BasePut EXCEPT !.dividendYield = y] : y \in {0, NaN}}
    \cup {[BaseCall EXCEPT !.optionType = "Call"], [BaseCall EXCEPT !.optionType = "PUT"]}
    \* a right that is neither call nor put, around the put's upper bound 97044553
    \cup {[BasePut EXCEPT !.optionType = "straddle", !.midPrice = p] :
             p \in {97044554, 97044555}}
    \* a put with r = 0, around its lower bound 1980133
    \cup {[BasePut EXCEPT !.r = 0, !.midPrice = p] : p \in {1980131, 1980132}}

CoreQuotes == {BaseCall, ZeroDivCall,
               [BaseCall EXCEPT !.midPrice = 98019869],
               [BasePut EXCEPT !.midPrice = 0]}
Trees     == {"jr", "Tian", "LR", "eqp", "foo"}
StepsSet  == {400, 1}

\* the calls of the engine explored: every quote with the defaults, and the
\* core quotes with every preferred family and step count
EngineCalls ==
    {<<x, "jr", DefaultSteps>> : x \in Quotes}
    \cup {<<x, t, n>> : x \in CoreQuotes, t \in Trees, n \in StepsSet}
    \cup {<<BaseCall, "LR", 401>>}

----------------------------------------------------------------------------
(* _deam_one_tree: the checks before any pricing (lines 11-37) *)

_get_mid(x) == x.midPrice

opt_is_call(x) == Lower(x.optionType) = "call"

BadInputs(x) ==
    LET P == _get_mid(x) IN
    \/ P = None
    \/ Le(x.TTM, 0)
    \/ ~IsFinite(P)
    \/ Le(P, 0)
    \/ Le(x.spot_price, 0)
    \/ Le(x.strike, 0)

\* q after the percent correction
CorrectedQ(x) ==
    IF Gt(x.dividendYield, QPercentCut) THEN x.dividendYield \div 100
    ELSE x.dividendYield

df_r(x) == ExpNeg(Mul(x.r, x.TTM))
df_q(x) == ExpNeg(Mul(CorrectedQ(x), x.TTM))

NoArbLb(x) ==
    IF opt_is_call(x)
    THEN PyMax(0, Sub(Mul(x.spot_price, df_q(x)), Mul(x.strike, df_r(x))))
    ELSE PyMax(0, Sub(Mul(x.strike, df_r(x)), Mul(x.spot_price, df_q(x))))

\* mutant: the call's upper bound for every right
NoArbUb_Call(x) == Mul(x.spot_price, df_q(x))

NoArbUb(x) ==
    IF opt_is_call(x) THEN Mul(x.spot_price, df_q(x)) ELSE Mul(x.strike, df_r(x))

\* mutant: only the lower bound is tested
NoArbOk_LowerOnly(x) == Le(Sub(NoArbLb(x), NoArbEps), _get_mid(x))

NoArbOk(x) ==
    /\ Le(Sub(NoArbLb(x), NoArbEps), _get_mid(x))
    /\ Le(_get_mid(x), Add(NoArbUb(x), NoArbEps))

\* mutant: the shortcut is taken for |q| < 1e-4 only
Shortcut_Strict(x) == opt_is_call(x) /\ Lt(Abs(CorrectedQ(x)), QNegligible)

Shortcut(x) == opt_is_call(x) /\ Le(Abs(CorrectedQ(x)), QNegligible)

\* _to_maturity: round() of nan raises
_to_maturity(d, T) == IF T = NaN THEN Throw ELSE d + Max(1, T * 365)

----------------------------------------------------------------------------
(* _deam_one_tree: the objective f (class _Res, lines 66-78) *)

\* what am_opt.NPV() can do at one volatility, for a quote with mid price P
AmOutcomes(P) == {Throw, NaN, PosInf, P - AmDelta, P, P + AmDelta}

\* A deterministic oracle is described, per family, by one of these
\* behaviours: American prices that bracket P at once ("good", "brentfail",
\* "euzero"), that are nan at the upper end until it passes LateFrom ("late"),
\* that lie above P everywhere ("flat"), or a pricing call that always throws
\* ("throws"); the root solve converges after one evaluation or raises
\* ("brentfail"); the European price is EuPriceA, EuPriceB ("late") or 0
\* ("euzero").
Profiles == {"good", "late", "flat", "throws", "brentfail", "euzero"}

\* the behaviour at a pricing call of the current attempt: QuantLib prices
\* with the process-wide evaluation date, and under a date other than the
\* call's the answers are other ones
ProfileNow ==
    IF evaluationDate # eval_date THEN "throws" ELSE orc[Lower(tree_try[ti])]

PinnedAm(pf, sigma, P) ==
    CASE pf = "throws" -> Throw
      [] pf = "flat"   -> P + AmDelta
      [] pf = "late"   -> IF sigma <= SigmaFloor THEN P - AmDelta
                          ELSE IF sigma = VolStart THEN P + AmDelta
                          ELSE IF sigma < LateFrom THEN NaN
                          ELSE P + AmDelta
      [] OTHER         -> IF sigma <= SigmaFloor THEN P - AmDelta
                          ELSE IF sigma = VolStart THEN P
                          ELSE P + AmDelta

\* am_opt.NPV() at volatility sigma (line 71)
AmNPV(sigma) ==
    IF DOMAIN orc = {} THEN AmOutcomes(_get_mid(row))
    ELSE {PinnedAm(ProfileNow, sigma, _get_mid(row))}

\* mutant: no try/except around the oracle call
Res_NoCatch(sigma, out, P) ==
    LET s == Max(sigma, SigmaFloor) IN
    [sigma  |-> s,
     out    |-> out,
     raised |-> out = Throw,
     f      |-> IF out = Throw THEN NaN
                ELSE IF ~IsFinite(out) THEN NaN
                ELSE out - P]

\* f(sigma) when the oracle does `out`: the volatility used, the value
\* returned, and whether the call raised instead of returning
Res(sigma, out, P) ==
    LET s == Max(sigma, SigmaFloor) IN
    [sigma  |-> s,
     out    |-> out,
     raised |-> FALSE,
     f      |-> IF out = Throw THEN NaN
                ELSE IF ~IsFinite(out) THEN NaN
                ELSE out - P]

\* mutant: the signs of the endpoint values are not compared
BadBracket_NoSign(l) == ~IsFinite(l.f_lo) \/ ~IsFinite(l.f_hi)

\* the loop condition of the bracket expansion, without the expansion cap
BadBracket(l) ==
    \/ ~IsFinite(l.f_lo)
    \/ ~IsFinite(l.f_hi)
    \/ Gt(Mul(l.f_lo, l.f_hi), 0)

\* mutant: the guess is taken from the upper end of the bracket
BrentGuess_FromHi(l) == Max(VolStart, (l.hi * 15) \div 10)

\* the initial guess handed to the root finder
BrentGuess(l) == Max(VolStart, (l.lo * 15) \div 10)

\* mutant: the lower end is not floored after the shrink
ExpandLo_NoFloor(lo) == (lo * 6) \div 10

\* lines 88 and 90: the lower end of the expanded bracket
ExpandLo(lo) == Max((lo * 6) \div 10, SigmaFloor)

\* line 89: the upper end of the expanded bracket
ExpandHi(hi) == (hi * 17) \div 10

----------------------------------------------------------------------------
(* _deamericanize_price_binomial (lines 114-138) and _deam_one_tree *)

RECURSIVE AppendNew(_, _)
AppendNew(acc, i) ==
    IF i > Len(Fallbacks) THEN acc
    ELSE AppendNew(IF \E j \in 1..Len(acc) : acc[j] = Fallbacks[i]
                   THEN acc ELSE Append(acc, Fallbacks[i]), i + 1)

\* mutant: the list of an earlier call is extended
BuildTreeTry_Carry(t) == AppendNew(tree_try \o <<Lower(t)>>, 1)

\* mutant: the fallbacks are appended without the membership test
BuildTreeTry_NoSkip(t) == <<Lower(t)>> \o Fallbacks

\* tree_try: the requested tree first, then the fallbacks not yet in the list
BuildTreeTry(t) == AppendNew(<<Lower(t)>>, 1)

NoLocals == [q |-> None, vol |-> None, use_steps |-> None, lo |-> None, hi |-> None,
             f_lo |-> None, f_hi |-> None, expands |-> 0, sigma_star |-> None,
             evals |-> 0, f_root |-> None, guess |-> None]

NoRet == [p |-> None, err |-> "none yet"]

Failure(msg) == [p |-> None, err |-> msg]

\* mutant: the sign of the price is not tested
Accepted_AnySign(x) == x.p # None /\ IsFinite(x.p)

\* the test of line 135 on the value an attempt returned
Accepted(x) == x.p # None /\ IsFinite(x.p) /\ Gt(x.p, 0)

EngineInitOk(t, n) == t \in QlTreeTypes /\ n >= 2

\* lines 124-131
DeamEnter ==
    /\ epc = "call"
    /\ tree_try' = BuildTreeTry(tree)
    /\ ti' = 1
    /\ epc' = "tree"
    /\ amLog' = <<>>
    /\ UNCHANGED <<evaluationDate, row, tree, steps, eval_date, L, ret, result,
                   attempts, calls>>
    /\ UNCHANGED <<ivVars, hesVars, auxVars>>

\* line 134 and lines 11-37: one family is attempted; guards, no-arbitrage
\* bounds and the zero-dividend call shortcut
OneTreeGuards ==
    /\ epc = "tree"
    /\ attempts' = Append(attempts, tree_try[ti])
    /\ calls' = {}
    /\ amLog' = <<>>
    /\ IF BadInputs(row)
       THEN /\ ret' = Failure("bad inputs")
            /\ L' = NoLocals
            /\ epc' = "check"
       ELSE IF ~NoArbOk(row)
       THEN /\ ret' = Failure("no-arb violation")
            /\ L' = NoLocals
            /\ epc' = "check"
       ELSE IF Shortcut(row)
       THEN /\ ret' = [p |-> _get_mid(row), err |-> "None"]
            /\ L' = NoLocals
            /\ epc' = "check"
       ELSE /\ ret' = NoRet
            /\ L' = [NoLocals EXCEPT !.q = CorrectedQ(row)]
            /\ epc' = "setup"
    /\ UNCHANGED <<evaluationDate, row, tree, steps, eval_date, tree_try, ti,
                   result>>
    /\ UNCHANGED <<ivVars, hesVars, auxVars>>

\* lines 40-63: the evaluation date is set, the instruments are built and the
\* binomial engine of the family is created
OneTreeSetup ==
    /\ epc = "setup"
    /\ evaluationDate' = eval_date
    /\ amLog' = <<>>
    /\ LET t == Lower(tree_try[ti])
           use_steps == IF t = "lr" /\ steps % 2 = 0 THEN steps + 1 ELSE steps
       IN  IF _to_maturity(eval_date, row.TTM) = Throw
           THEN /\ epc' = "raised"
                /\ UNCHANGED <<L, ret>>
           ELSE IF ~EngineInitOk(t, use_steps)
           THEN /\ ret' = Failure("engine init failed")
                /\ L' = NoLocals
                /\ epc' = "check"
           ELSE /\ L' = [L EXCEPT !.vol = Max(VolStart, SigmaFloor),
                                  !.use_steps = use_steps]
                /\ epc' = "bracket"
                /\ UNCHANGED ret
    /\ UNCHANGED <<row, tree, steps, eval_date, tree_try, ti, result, attempts, calls>>
    /\ UNCHANGED <<ivVars, hesVars, auxVars>>

\* lines 83-86: the first bracket and the two evaluations of f on it
BracketInit ==
    /\ epc = "bracket"
    /\ \E o1 \in AmNPV(Max(SigmaFloor, 10)), o2 \in AmNPV(HiStart) :
         LET lo == Max(SigmaFloor, 10)
             hi == HiStart
             e1 == Res(lo, o1, _get_mid(row))
             e2 == Res(hi, o2, _get_mid(row))
         IN  IF e1.raised
             THEN /\ epc' = "raised"
                  /\ amLog' = <<e1>>
                  /\ L' = [L EXCEPT !.lo = lo, !.hi = hi, !.vol = e1.sigma]
             ELSE IF e2.raised
             THEN /\ epc' = "raised"
                  /\ amLog' = <<e1, e2>>
                  /\ L' = [L EXCEPT !.lo = lo, !.hi = hi, !.vol = e2.sigma]
             ELSE /\ epc' = "expand"
                  /\ amLog' = <<e1, e2>>
                  /\ L' = [L EXCEPT !.lo = lo, !.hi = hi, !.f_lo = e1.f,
                                    !.f_hi = e2.f, !.vol = e2.sigma, !.expands = 0]
    /\ calls' = calls \cup {"AmericanNPV"}
    /\ UNCHANGED <<evaluationDate, row, tree, steps, eval_date, tree_try, ti, ret,
                   result, attempts>>
    /\ UNCHANGED <<ivVars, hesVars, auxVars>>

\* lines 87-93: one pass of the expansion loop
BracketExpand ==
    /\ epc = "expand"
    /\ BadBracket(L) /\ L.expands < MaxExpands
    /\ \E o1 \in AmNPV(ExpandLo(L.lo)), o2 \in AmNPV(ExpandHi(L.hi)) :
         LET lo == ExpandLo(L.lo)
             hi == ExpandHi(L.hi)
             e1 == Res(lo, o1, _get_mid(row))
             e2 == Res(hi, o2, _get_mid(row))
         IN  IF e1.raised
             THEN /\ epc' = "raised"
                  /\ amLog' = <<e1>>
                  /\ L' = [L EXCEPT !.lo = lo, !.hi = hi, !.vol = e1.sigma]
             ELSE IF e2.raised
             THEN /\ epc' = "raised"
                  /\ amLog' = <<e1, e2>>
                  /\ L' = [L EXCEPT !.lo = lo, !.hi = hi, !.vol = e2.sigma]
             ELSE /\ epc' = "expand"
                  /\ amLog' = <<e1, e2>>
                  /\ L' = [L EXCEPT !.lo = lo, !.hi = hi, !.f_lo = e1.f,
                                    !.f_hi = e2.f, !.vol = e2.sigma,
                                    !.expands = L.expands + 1]
    /\ calls' = calls \cup {"AmericanNPV"}
    /\ UNCHANGED <<evaluationDate, row, tree, steps, eval_date, tree_try, ti, ret,
                   result, attempts>>
    /\ UNCHANGED <<ivVars, hesVars, auxVars>>

\* the loop is left; lines 94-95, and the arguments of the solve of line 99
BracketExit ==
    /\ epc = "expand"
    /\ ~(BadBracket(L) /\ L.expands < MaxExpands)
    /\ amLog' = <<>>
    /\ IF BadBracket(L)
       THEN ret' = Failure("no sigma bracket") /\ L' = NoLocals /\ epc' = "check"
       ELSE ret' = ret /\ L' = [L EXCEPT !.guess = BrentGuess(L)] /\ epc' = "solve"
    /\ UNCHANGED <<evaluationDate, row, tree, steps, eval_date, tree_try, ti,
                   result, attempts, calls>>
    /\ UNCHANGED <<ivVars, hesVars, auxVars>>

\* what ql.Brent().solve does on the bracket of the current attempt
BrentPlan ==
    IF DOMAIN orc = {} THEN "any"
    ELSE IF ProfileNow = "brentfail" THEN "raise"
    ELSE "converge"

\* lines 98-99: ql.Brent().solve evaluates f inside [lo, hi]; an exception
\* leaving f is caught by line 101 like any other failure of the solve.
\* f_lo and f_hi are not read after line 94 and are dropped once the solve runs;
\* the locals of _deam_one_tree are dropped when it returns
BrentEval ==
    /\ epc = "solve"
    /\ L.evals < MaxBrentEvals
    /\ BrentPlan \in {"any", "converge"}
    /\ \E sigma \in {L.lo, L.guess, L.hi} : \E o \in AmNPV(sigma) :
         LET e == Res(sigma, o, _get_mid(row)) IN
         /\ BrentPlan = "converge" => (L.evals = 0 /\ sigma = L.guess)
         /\ amLog' = <<e>>
         /\ IF e.raised
            THEN /\ ret' = Failure("Brent failed")
                 /\ L' = NoLocals
                 /\ epc' = "check"
            ELSE /\ ret' = ret
                 /\ L' = [L EXCEPT !.vol = e.sigma, !.evals = L.evals + 1,
                                   !.f_lo = None, !.f_hi = None, !.f_root = e.f]
                 /\ epc' = "solve"
    /\ calls' = calls \cup {"BrentSolve", "AmericanNPV"}
    /\ UNCHANGED <<evaluationDate, row, tree, steps, eval_date, tree_try, ti,
                   result, attempts>>
    /\ UNCHANGED <<ivVars, hesVars, auxVars>>

\* line 99: the solve returns; what it returns is the point it evaluated f
\* at last
BrentReturn ==
    /\ epc = "solve"
    /\ L.evals >= 1
    /\ BrentPlan \in {"any", "converge"}
    /\ L' = [L EXCEPT !.sigma_star = L.vol, !.f_lo = None, !.f_hi = None]
    /\ epc' = "eu"
    /\ amLog' = <<>>
    /\ calls' = calls \cup {"BrentSolve"}
    /\ UNCHANGED <<evaluationDate, row, tree, steps, eval_date, tree_try, ti, ret,
                   result, attempts>>
    /\ UNCHANGED <<ivVars, hesVars, auxVars>>

\* lines 101-102: the solve raises
BrentRaise ==
    /\ epc = "solve"
    /\ BrentPlan \in {"any", "raise"}
    /\ ret' = Failure("Brent failed")
    /\ L' = NoLocals
    /\ epc' = "check"
    /\ amLog' = <<>>
    /\ calls' = calls \cup {"BrentSolve"}
    /\ UNCHANGED <<evaluationDate, row, tree, steps, eval_date, tree_try, ti,
                   result, attempts>>
    /\ UNCHANGED <<ivVars, hesVars, auxVars>>

\* what eu_opt.NPV() can do
EuOutcomes == {Throw, NaN, 0, EuPriceA, EuPriceB}

PinnedEu(pf) ==
    CASE pf = "throws" -> Throw
      [] pf = "late"   -> EuPriceB
      [] pf = "euzero" -> 0
      [] OTHER         -> EuPriceA

\* eu_opt.NPV() (line 108)
EuNPV == IF DOMAIN orc = {} THEN EuOutcomes ELSE {PinnedEu(ProfileNow)}

\* lines 105-112: the European analytic price at sigma*
EuPrice ==
    /\ epc = "eu"
    /\ \E o \in EuNPV :
         ret' = IF o = Throw THEN Failure("eu analytic failed")
                ELSE [p |-> o, err |-> "None"]
    /\ L' = NoLocals
    /\ epc' = "check"
    /\ amLog' = <<>>
    /\ calls' = calls \cup {"EuropeanNPV"}
    /\ UNCHANGED <<evaluationDate, row, tree, steps, eval_date, tree_try, ti,
                   result, attempts>>
    /\ UNCHANGED <<ivVars, hesVars, auxVars>>

\* lines 135-138: the attempt's value is accepted, or the next family is
\* taken, or the list is exhausted
AttemptCheck ==
    /\ epc = "check"
    /\ amLog' = <<>>
    /\ IF Accepted(ret)
       THEN result' = ret.p /\ epc' = "done" /\ ti' = ti
       ELSE IF ti < Len(tree_try)
       THEN result' = result /\ epc' = "tree" /\ ti' = ti + 1
       ELSE result' = None /\ epc' = "done" /\ ti' = ti
    /\ UNCHANGED <<evaluationDate, row, tree, steps, eval_date, tree_try, L, ret,
                   attempts, calls>>
    /\ UNCHANGED <<ivVars, hesVars, auxVars>>

----------------------------------------------------------------------------
(* Idle values of the parts a specification does not run *)

EngineIdle ==
    /\ row = BaseCall /\ tree = "jr" /\ steps = DefaultSteps /\ eval_date = EvalDay
    /\ epc = "idle" /\ tree_try = <<>> /\ ti = 0 /\ L = NoLocals /\ ret = NoRet
    /\ result = None /\ attempts = <<>> /\ calls = {} /\ amLog = <<>>

\* the locals of _row_bs_iv_from_price before its solvers have run
NoBisect ==
    [raw |-> None, pricer |-> "", lo |-> None, hi |-> None, mid |-> None,
     p_mid |-> None, evals |-> 0]

IvIdle ==
    /\ use_deam = FALSE /\ ivpc = "idle" /\ price_for_iv = None /\ it = 0
    /\ iv = None /\ ivcalls = <<>> /\ iv_q = None /\ bis = NoBisect

HesIdle ==
    /\ df = <<>> /\ oracle = <<>> /\ hpc = "idle" /\ todo = {} /\ gkey = ""
    /\ rows = <<>> /\ helpers = <<>> /\ model = <<>> /\ prices = <<>>
    /\ results = <<>> /\ hlog = <<>> /\ run = 0 /\ out1 = <<>>

ThreadsIdle == threads = <<>>

CurveIdle ==
    /\ curve_series = <<>> /\ x_eval = <<>> /\ cpc = "idle" /\ xs = <<>> /\ ys = <<>>
    /\ spline = None /\ curve_results = <<>>

\* no call of _retry is under way
NoRetry == [tries |-> 0, attempt |-> 0, pc |-> "idle", log |-> <<>>, out |-> <<>>]

FetchIdle ==
    /\ cfg = <<>> /\ fpc = "idle" /\ remaining = {} /\ permanent_hint_counts = <<>>
    /\ round = 0 /\ round_list = {} /\ fetched = {} /\ flog = <<>> /\ rt = NoRetry

\* the oracle may answer anything, and the engine was not called before
FreeOracle == orc = <<>> /\ runs = <<>>

----------------------------------------------------------------------------
(* Spec: one call of _deamericanize_price_binomial *)

Init ==
    /\ evaluationDate = 0
    /\ \E c \in EngineCalls : row = c[1] /\ tree = c[2] /\ steps = c[3]
    /\ eval_date = EvalDay
    /\ epc = "call" /\ tree_try = <<>> /\ ti = 0 /\ L = NoLocals /\ ret = NoRet
    /\ result = None /\ attempts = <<>> /\ calls = {} /\ amLog = <<>>
    /\ IvIdle /\ HesIdle
    /\ FreeOracle /\ ThreadsIdle /\ CurveIdle /\ FetchIdle

Next ==
    \/ DeamEnter
    \/ OneTreeGuards
    \/ OneTreeSetup
    \/ BracketInit
    \/ BracketExpand
    \/ BracketExit
    \/ BrentEval
    \/ BrentReturn
    \/ BrentRaise
    \/ EuPrice
    \/ AttemptCheck

Spec == Init /\ [][Next]_vars

----------------------------------------------------------------------------
(* SpecTwice: _deamericanize_price_binomial called twice in sequence with   *)
(* the same arguments, the pricing oracle being a function                  *)

Families == {Fallbacks[i] : i \in 1..Len(Fallbacks)}

Oracles ==
    {o \in [Families -> Profiles] :
        /\ o["tian"] \in {"flat", "euzero"}
        /\ o["crr"] = "throws"
        /\ o["lr"] \in {"good", "brentfail"}}

TwiceCalls ==
    {<<x, t, DefaultSteps>> :
        x \in {BasePut, BaseCall, ZeroDivCall, [BaseCall EXCEPT !.midPrice = 98019869]},
        t \in {"jr", "LR", "foo"}}

\* the caller calls again: the locals of the first call are gone, the
\* process-wide evaluation date is what the first call left
DeamCallAgain ==
    /\ epc \in {"done", "raised"}
    /\ DOMAIN orc # {}
    /\ runs = <<>>
    /\ runs' = <<[result |-> result, attempts |-> attempts, epc |-> epc]>>
    /\ epc' = "call" /\ ti' = 0 /\ L' = NoLocals /\ ret' = NoRet /\ result' = None
    /\ attempts' = <<>> /\ calls' = {} /\ amLog' = <<>>
    /\ UNCHANGED <<evaluationDate, row, tree, steps, eval_date, tree_try, orc>>
    /\ UNCHANGED <<ivVars, hesVars, threads, curveVars, fetchVars>>

InitTwice ==
    /\ evaluationDate = 0
    /\ \E c \in TwiceCalls : row = c[1] /\ tree = c[2] /\ steps = c[3]
    /\ eval_date = EvalDay
    /\ epc = "call" /\ tree_try = <<>> /\ ti = 0 /\ L = NoLocals /\ ret = NoRet
    /\ result = None /\ attempts = <<>> /\ calls = {} /\ amLog = <<>>
    /\ IvIdle /\ HesIdle
    /\ orc \in Oracles /\ runs = <<>>
    /\ ThreadsIdle /\ CurveIdle /\ FetchIdle

NextTwice ==
    \/ DeamEnter
    \/ OneTreeGuards
    \/ OneTreeSetup
    \/ BracketInit
    \/ BracketExpand
    \/ BracketExit
    \/ BrentEval
    \/ BrentReturn
    \/ BrentRaise
    \/ EuPrice
    \/ AttemptCheck
    \/ DeamCallAgain

SpecTwice == InitTwice /\ [][NextTwice]_vars

----------------------------------------------------------------------------
(* _row_bs_iv_from_price (src/binomial/bs_iv.py) *)

\* the quotes the extractor is run on
IvQuotes ==
    {BaseCall, BasePut, ZeroDivCall, [BaseCall EXCEPT !.midPrice = 98019869]}
    \cup {[ZeroDivCall EXCEPT !.midPrice = p] : p \in {None, NaN, PosInf, 0, -1}}
    \cup {[ZeroDivCall EXCEPT !.spot_price = x] : x \in {0, -1, NaN}}
    \cup {[ZeroDivCall EXCEPT !.strike = x] : x \in {0, -1, NaN}}
    \cup {[ZeroDivCall EXCEPT !.TTM = x] : x \in {0, -1, NaN}}
    \* a dividend yield of 2.0, which is 2 percent
    \cup {[BasePut EXCEPT !.dividendYield = 200000]}

\* the test of line 17
IvBadInputs(x) ==
    \/ _get_mid(x) = None
    \/ Le(x.TTM, 0)
    \/ Le(x.spot_price, 0)
    \/ Le(x.strike, 0)

\* mutant: whatever the engine returned is used
DeamUsable_Any(p) == TRUE

\* the test of line 28 on the engine's value, negated
DeamUsable(p) == ~(p = None \/ ~IsFinite(p) \/ Le(p, 0))

\* what opt.impliedVolatility can do (line 44)
PrimaryOutcomes == {Throw, NaN, 0, IvPrimaryValue}

\* mutant: a zero volatility is accepted too
PrimaryAccepted_NonNeg(o) == o # Throw /\ IsFinite(o) /\ ~Lt(o, 0)

\* the test of lines 45-46 on what line 44 returned; a raise is caught at 48
PrimaryAccepted(o) == o # Throw /\ IsFinite(o) /\ Gt(o, 0)

\* the analytic price as a function of the volatility, one function per
\* option: "rising" meets the target near BisectRoot, "step" jumps across it,
\* "nan" and "throws" fail below BisectRoot, "falling" decreases, "above"
\* lies above the target everywhere
PriceProfiles == {"rising", "step", "nan", "throws", "falling", "above"}

\* opt.NPV() at volatility sigma (line 59)
BsNPV(f, sigma, target) ==
    LET t == IF IsNum(target) THEN target ELSE 0
    IN CASE f = "rising"  -> t + ((sigma - BisectRoot) \div PriceGrain)
         [] f = "step"    -> IF sigma < BisectRoot THEN t - 2 ELSE t + 2
         [] f = "nan"     -> IF sigma < BisectRoot THEN NaN ELSE t + 2
         [] f = "throws"  -> IF sigma < BisectRoot THEN Throw ELSE t + 2
         [] f = "falling" -> t - ((sigma - BisectRoot) \div PriceGrain)
         [] f = "above"   -> t + 5

\* mutant: a looser convergence test
Converged_Loose(p, target) == Lt(Abs(Sub(p, target)), 3)

\* the test of line 63
Converged(p, target) == Lt(Abs(Sub(p, target)), PriceTol)

\* line 55, at the resolution of the extractor's volatilities
Midpoint(lo, hi) == (lo + hi) \div 2

\* lines 12-27: the input test, the evaluation date, and the choice of the
\* target price; with use_deam the engine is called with its defaults
IvEnter ==
    /\ ivpc = "call"
    /\ IF IvBadInputs(row)
       THEN /\ iv' = None
            /\ ivpc' = "done"
            /\ UNCHANGED <<evaluationDate, price_for_iv, ivcalls, epc, tree, steps>>
       ELSE /\ evaluationDate' = eval_date
            /\ iv' = iv
            /\ IF use_deam
               THEN /\ ivcalls' = Append(ivcalls, "deam")
                    /\ epc' = "call"
                    /\ tree' = "jr"
                    /\ steps' = DefaultSteps
                    /\ price_for_iv' = _get_mid(row)
                    /\ ivpc' = "deam"
               ELSE /\ price_for_iv' = _get_mid(row)
                    /\ ivpc' = "primary"
                    /\ UNCHANGED <<ivcalls, epc, tree, steps>>
    /\ UNCHANGED <<row, eval_date, tree_try, ti, L, ret, result, attempts, calls,
                   amLog, use_deam, it, iv_q, bis, hesVars, auxVars>>

\* lines 27-31: the engine has returned (or raised)
IvDeamReturn ==
    /\ ivpc = "deam"
    /\ epc \in {"done", "raised"}
    /\ IF epc = "raised"
       THEN ivpc' = "raised" /\ UNCHANGED <<iv, price_for_iv>>
       ELSE IF ~DeamUsable(result)
       THEN ivpc' = "done" /\ iv' = None /\ UNCHANGED price_for_iv
       ELSE ivpc' = "primary" /\ price_for_iv' = result /\ iv' = iv
    /\ UNCHANGED <<evaluationDate, engVars, use_deam, it, ivcalls, iv_q, bis, hesVars,
                   auxVars>>

\* lines 33-49: the instruments are built, the curves from r and q as read
\* at lines 12-13 (the maturity date of a nan TTM raises), and QuantLib's
\* implied-volatility solver is tried
IvPrimary ==
    /\ ivpc = "primary"
    /\ IF _to_maturity(eval_date, row.TTM) = Throw
       THEN ivpc' = "raised" /\ UNCHANGED <<iv, ivcalls, bis>>
       ELSE \E o \in PrimaryOutcomes :
              IF PrimaryAccepted(o)
              THEN /\ iv' = o
                   /\ ivpc' = "done"
                   /\ ivcalls' = Append(ivcalls, "impliedVolatility")
                   /\ bis' = [bis EXCEPT !.raw = o]
              ELSE /\ iv' = iv
                   /\ ivpc' = "bisect"
                   /\ ivcalls' = ivcalls \o <<"impliedVolatility", "bisection">>
                   /\ \E f \in PriceProfiles :
                        bis' = [bis EXCEPT !.raw = o, !.pricer = f,
                                           !.lo = BisectLo, !.hi = BisectHi]
    /\ iv_q' = IF _to_maturity(eval_date, row.TTM) = Throw THEN iv_q
              ELSE row.dividendYield
    /\ it' = 0
    /\ UNCHANGED <<evaluationDate, engVars, use_deam, price_for_iv, hesVars, auxVars>>

\* lines 54-69 and 72-74: one pass of the bisection loop
IvBisectStep ==
    /\ ivpc = "bisect"
    /\ it < BisectIters
    /\ LET mid   == Midpoint(bis.lo, bis.hi)
           p_mid == BsNPV(bis.pricer, mid, price_for_iv)
           b     == [bis EXCEPT !.mid = mid, !.p_mid = p_mid, !.evals = @ + 1]
       IN IF p_mid = Throw \/ ~IsFinite(p_mid)
          THEN iv' = None /\ ivpc' = "done" /\ it' = it /\ bis' = b
          ELSE IF Converged(p_mid, price_for_iv)
          THEN iv' = mid /\ ivpc' = "done" /\ it' = it /\ bis' = b
          ELSE /\ iv' = iv /\ ivpc' = "bisect" /\ it' = it + 1
               /\ bis' = IF Lt(p_mid, price_for_iv)
                         THEN [b EXCEPT !.lo = mid]
                         ELSE [b EXCEPT !.hi = mid]
    /\ UNCHANGED <<evaluationDate, engVars, use_deam, price_for_iv, ivcalls, iv_q,
                   hesVars, auxVars>>

\* lines 70-71: the loop is exhausted
IvBisectExhausted ==
    /\ ivpc = "bisect"
    /\ it >= BisectIters
    /\ iv' = None
    /\ ivpc' = "done"
    /\ UNCHANGED <<evaluationDate, engVars, use_deam, price_for_iv, it, ivcalls, iv_q,
                   bis, hesVars, auxVars>>

----------------------------------------------------------------------------
(* SpecIV: one call of _row_bs_iv_from_price, the engine included *)

InitIV ==
    /\ evaluationDate = 0
    /\ row \in IvQuotes /\ tree = "jr" /\ steps = DefaultSteps /\ eval_date = EvalDay
    /\ epc = "idle" /\ tree_try = <<>> /\ ti = 0 /\ L = NoLocals /\ ret = NoRet
    /\ result = None /\ attempts = <<>> /\ calls = {} /\ amLog = <<>>
    /\ use_deam \in BOOLEAN /\ ivpc = "call" /\ price_for_iv = None /\ it = 0
    /\ iv = None /\ ivcalls = <<>> /\ iv_q = None /\ bis = NoBisect
    /\ HesIdle
    /\ FreeOracle /\ ThreadsIdle /\ CurveIdle /\ FetchIdle

NextIV ==
    \/ IvEnter
    \/ IvDeamReturn
    \/ IvPrimary
    \/ IvBisectStep
    \/ IvBisectExhausted
    \/ DeamEnter
    \/ OneTreeGuards
    \/ OneTreeSetup
    \/ BracketInit
    \/ BracketExpand
    \/ BracketExit
    \/ BrentEval
    \/ BrentReturn
    \/ BrentRaise
    \/ EuPrice
    \/ AttemptCheck

SpecIV == InitIV /\ [][NextIV]_vars

\* the call runs on one thread and waits for nothing: a step it can take is
\* taken
SpecIVFair == SpecIV /\ WF_vars(NextIV)

----------------------------------------------------------------------------
(* calibrate_and_price_heston_european (src/heston/heston.py) and           *)
(* _calibrate_heston (src/heston_calibrator.py)                             *)
(*                                                                          *)
(* A row of the frame is a ticker and a strike.  The external calls are     *)
(* deterministic: `oracle` fixes, for the whole behaviour, what             *)
(* _row_bs_iv_from_price(row, use_deam=True) returns for each row (None or  *)
(* a positive volatility, the values SpecIV shows it can return), what      *)
(* model.calibrate does for each group, and what the Heston engine does     *)
(* when pricing each row.  A fitted model is represented by the helpers it  *)
(* was fitted to, a Heston price by the row priced and the model used.      *)

Tickers == <<"A", "B", "C">>

Ok5 == <<IvPrimaryValue, IvPrimaryValue, IvBisectValue, IvPrimaryValue, IvPrimaryValue>>
AllPx(n) == [k \in 1..n |-> 0]

\* the groups a frame is made of: the answers of the external calls for the
\* rows of one group (iv, px: 0 is "returns a price") and for its calibration
GroupCases == {
    [iv |-> Ok5, px |-> AllPx(5), cal |-> 0],
    [iv |-> [Ok5 EXCEPT ![2] = None], px |-> AllPx(5), cal |-> 0],
    [iv |-> <<IvPrimaryValue, None>> \o SubSeq(Ok5, 2, 5), px |-> AllPx(6), cal |-> 0],
    [iv |-> Ok5, px |-> AllPx(5), cal |-> Throw],
    [iv |-> Ok5, px |-> [AllPx(5) EXCEPT ![2] = Throw], cal |-> 0],
    [iv |-> Ok5, px |-> [AllPx(5) EXCEPT ![4] = NaN], cal |-> 0] }

Frames == [1..Len(Tickers) -> GroupCases]

\* rows of the groups are interleaved in the frame: label -> (group, position)
GroupNo(l) == ((l - 1) % Len(Tickers)) + 1
PosNo(l)   == ((l - 1) \div Len(Tickers)) + 1
Labels(fr) == {l \in 1..(Len(Tickers) * 6) : PosNo(l) <= Len(fr[GroupNo(l)].iv)}

FrameDf(fr) ==
    [l \in Labels(fr) |-> [ticker |-> Tickers[GroupNo(l)], strike |-> PosNo(l)]]

FrameOracle(fr) ==
    [iv  |-> [l \in Labels(fr) |-> fr[GroupNo(l)].iv[PosNo(l)]],
     px  |-> [l \in Labels(fr) |-> fr[GroupNo(l)].px[PosNo(l)]],
     cal |-> [n \in 1..Len(Tickers) |-> fr[n].cal]]

TickerNo(g) == CHOOSE n \in 1..Len(Tickers) : Tickers[n] = g

RECURSIVE SortedSeq(_)
SortedSeq(S) ==
    IF S = {} THEN <<>>
    ELSE LET m == CHOOSE x \in S : \A y \in S : x <= y
         IN  <<m>> \o SortedSeq(S \ {m})

\* g.index of df.groupby: the labels of the group, in frame order
GroupIndex(d, g) == SortedSeq({l \in DOMAIN d : d[l].ticker = g})

GroupKeys(d) == {d[l].ticker : l \in DOMAIN d}

Absent == [kind |-> "nan", idx |-> 0, model |-> <<>>]

HestonPrice(l, m) == [kind |-> "price", idx |-> l, model |-> m]

NoLog == [status |-> [n \in 1..Len(Tickers) |-> "none"], priced |-> {}, iv_calls |-> <<>>]

\* mutant: the threshold test is <=
InsufficientData_Le(h) == Len(h) <= MinHelpers

\* the test of heston_calibrator.py line 34
InsufficientData(h) == Len(h) < MinHelpers

\* mutant: no try/except around _calibrate_heston
CalibrationFailed_Abort == "raised"

\* heston.py lines 48-50: an exception of _calibrate_heston is caught and the
\* loop continues with the next group
CalibrationFailed == "groups"

\* heston.py lines 34-41
HestonEnter ==
    /\ hpc = "call"
    /\ results' = [l \in DOMAIN df |-> Absent]
    /\ todo' = GroupKeys(df)
    /\ hpc' = "groups"
    /\ UNCHANGED <<evaluationDate, engVars, ivVars, auxVars, df, oracle, gkey, rows, helpers,
                   model, prices, hlog, run, out1>>

\* heston.py lines 43-47 and heston_calibrator.py lines 11-23: the next
\* group is taken and its calibration begins
NextGroup ==
    /\ hpc = "groups"
    /\ \E g \in todo :
         /\ gkey' = g
         /\ todo' = todo \ {g}
         /\ rows' = GroupIndex(df, g)
    /\ evaluationDate' = eval_date
    /\ helpers' = <<>>
    /\ hlog' = [hlog EXCEPT !.iv_calls = <<>>]
    /\ hpc' = "calib_rows"
    /\ UNCHANGED <<engVars, ivVars, auxVars, df, oracle, model, prices, results, run, out1>>

\* mutant: a helper is built whatever the extractor returned
WithHelper_Always(h, l, v) == Append(h, [idx |-> l, strike |-> df[l].strike, iv |-> v])

\* heston_calibrator.py lines 26-32: no helper for a row without a volatility
WithHelper(h, l, v) ==
    IF v = None THEN h
    ELSE Append(h, [idx |-> l, strike |-> df[l].strike, iv |-> v])

\* heston_calibrator.py lines 24-32: the implied volatility of one row, and
\* its helper when there is one; hlog.iv_calls is the list of the calls of
\* line 25 made for the group
CalibRow ==
    /\ hpc = "calib_rows"
    /\ rows # <<>>
    /\ LET l == Head(rows)
           v == oracle.iv[l]
       IN  /\ helpers' = WithHelper(helpers, l, v)
           /\ hlog' = [hlog EXCEPT !.iv_calls = Append(@, [idx |-> l, use_deam |-> TRUE])]
    /\ rows' = Tail(rows)
    /\ UNCHANGED <<evaluationDate, engVars, ivVars, auxVars, df, oracle, hpc, todo, gkey, model,
                   prices, results, run, out1>>

\* heston_calibrator.py lines 34-35: the sufficiency test
CalibGate ==
    /\ hpc = "calib_rows"
    /\ rows = <<>>
    /\ IF InsufficientData(helpers)
       THEN /\ hpc' = CalibrationFailed
            /\ hlog' = [hlog EXCEPT !.status[TickerNo(gkey)] = "insufficient"]
       ELSE /\ hpc' = "optimize"
            /\ hlog' = hlog
    /\ UNCHANGED <<evaluationDate, engVars, ivVars, auxVars, df, oracle, todo, gkey, rows,
                   helpers, model, prices, results, run, out1>>

\* heston_calibrator.py lines 37-56: the optimizer is run on the helpers
Optimize ==
    /\ hpc = "optimize"
    /\ IF oracle.cal[TickerNo(gkey)] = Throw
       THEN /\ hpc' = CalibrationFailed
            /\ hlog' = [hlog EXCEPT !.status[TickerNo(gkey)] = "optimizer failed"]
            /\ UNCHANGED <<model, rows, prices>>
       ELSE /\ hpc' = "price"
            /\ hlog' = [hlog EXCEPT !.status[TickerNo(gkey)] = "calibrated"]
            /\ model' = helpers
            /\ rows' = GroupIndex(df, gkey)
            /\ prices' = <<>>
    /\ UNCHANGED <<evaluationDate, engVars, ivVars, auxVars, df, oracle, todo, gkey, helpers,
                   results, run, out1>>

\* heston.py line 52 and lines 7-23: one row of the group is priced; an
\* exception of the Heston engine leaves g.apply and the whole call
PriceRow ==
    /\ hpc = "price"
    /\ rows # <<>>
    /\ evaluationDate' = eval_date
    /\ LET l == Head(rows)
           o == oracle.px[l]
       IN  /\ hlog' = [hlog EXCEPT !.priced = @ \cup {l}]
           /\ IF o = Throw
              THEN hpc' = "raised" /\ UNCHANGED <<prices, rows>>
              ELSE /\ hpc' = hpc
                   /\ prices' = Append(prices, IF o = NaN THEN Absent
                                               ELSE HestonPrice(l, model))
                   /\ rows' = Tail(rows)
    /\ UNCHANGED <<engVars, ivVars, auxVars, df, oracle, todo, gkey, helpers, model, results,
                   run, out1>>

\* mutant: the values are stored in the reverse order of the labels
ValueAt_Reversed(ix, vals, l) ==
    vals[Len(ix) + 1 - (CHOOSE k \in 1..Len(ix) : ix[k] = l)]

\* results.loc[ix] = vals: the value stored at label l of ix is the one at
\* the position l has in ix
ValueAt(ix, vals, l) == vals[CHOOSE k \in 1..Len(ix) : ix[k] = l]

\* heston.py lines 53-54: the prices of the group are stored at its labels
AssignPrices ==
    /\ hpc = "price"
    /\ rows = <<>>
    /\ LET ix == GroupIndex(df, gkey)
       IN  results' = [l \in DOMAIN results |->
                          IF \E k \in 1..Len(ix) : ix[k] = l
                          THEN ValueAt(ix, prices, l)
                          ELSE results[l]]
    /\ hpc' = "groups"
    /\ UNCHANGED <<evaluationDate, engVars, ivVars, auxVars, df, oracle, todo, gkey, rows,
                   helpers, model, prices, hlog, run, out1>>

\* heston.py line 56
HestonReturn ==
    /\ hpc = "groups"
    /\ todo = {}
    /\ hpc' = "done"
    /\ UNCHANGED <<evaluationDate, engVars, ivVars, auxVars, df, oracle, todo, gkey, rows,
                   helpers, model, prices, results, hlog, run, out1>>

FailedGroups(h) ==
    {Tickers[n] : n \in {k \in 1..Len(Tickers) :
                            h.status[k] \in {"insufficient", "optimizer failed"}}}

\* the function is called again, on the frame without the groups whose
\* calibration failed in the first call
CallAgain ==
    /\ run = 1
    /\ hpc \in {"done", "raised"}
    /\ FailedGroups(hlog) # {}
    /\ out1' = [status |-> hpc, results |-> results, hlog |-> hlog]
    /\ df' = [l \in {x \in DOMAIN df : df[x].ticker \notin FailedGroups(hlog)} |-> df[l]]
    /\ run' = 2
    /\ hpc' = "call"
    /\ todo' = {} /\ gkey' = "" /\ rows' = <<>> /\ helpers' = <<>> /\ model' = <<>>
    /\ prices' = <<>> /\ results' = <<>> /\ hlog' = NoLog
    /\ UNCHANGED <<evaluationDate, engVars, ivVars, auxVars, oracle>>

----------------------------------------------------------------------------
(* SpecHeston: calibrate_and_price_heston_european on a frame *)

InitHeston ==
    /\ evaluationDate = 0
    /\ EngineIdle /\ IvIdle
    /\ \E fr \in Frames : df = FrameDf(fr) /\ oracle = FrameOracle(fr)
    /\ hpc = "call" /\ todo = {} /\ gkey = "" /\ rows = <<>> /\ helpers = <<>>
    /\ model = <<>> /\ prices = <<>> /\ results = <<>> /\ hlog = NoLog
    /\ run = 1 /\ out1 = <<>>
    /\ FreeOracle /\ ThreadsIdle /\ CurveIdle /\ FetchIdle

NextHeston ==
    \/ HestonEnter
    \/ NextGroup
    \/ CalibRow
    \/ CalibGate
    \/ Optimize
    \/ PriceRow
    \/ AssignPrices
    \/ HestonReturn
    \/ CallAgain

SpecHeston == InitHeston /\ [][NextHeston]_vars

----------------------------------------------------------------------------
(* SpecThreads: two core calls running in two threads of one process.       *)
(*                                                                          *)
(* Each of the four functions assigns its eval_date argument to             *)
(* ql.Settings.instance().evaluationDate (binomial_deamericanization.py     *)
(* line 40, bs_iv.py line 23, heston_calibrator.py line 13, heston.py line  *)
(* 13) and prices afterwards; QuantLib reads that setting when a price is   *)
(* computed (am_opt.NPV() line 71, eu_opt.NPV() line 108,                   *)
(* opt.impliedVolatility line 44, opt.NPV() line 59 and heston.py line 22,  *)
(* model.calibrate line 49).  A thread switch can fall between any two      *)
(* statements.                                                              *)

Threads == {1, 2}

CoreCalls == {"_deam_one_tree", "_row_bs_iv_from_price", "_calibrate_heston",
              "_price_eu_heston"}

\* the evaluation date each thread passes to its call
ThreadDate(t) == EvalDay + t

NewThread(t, c) == [call |-> c, eval_date |-> ThreadDate(t), pc |-> "start",
                    evals |-> 0, sets |-> 0, seen |-> {}]

\* the assignment to the process-wide evaluation date
ThreadSetDate(t) ==
    /\ threads[t].pc = "start"
    /\ evaluationDate' = threads[t].eval_date
    /\ threads' = [threads EXCEPT ![t].pc = "pricing", ![t].sets = @ + 1]
    /\ UNCHANGED <<engVars, ivVars, hesVars, detVars, curveVars, fetchVars>>

\* one evaluation of the pricing oracle: it computes with the process-wide
\* evaluation date of the moment
ThreadOracle(t) ==
    /\ threads[t].pc = "pricing"
    /\ threads[t].evals < MaxThreadEvals
    /\ threads' = [threads EXCEPT ![t].evals = @ + 1,
                                  ![t].seen = @ \cup {evaluationDate}]
    /\ UNCHANGED <<evaluationDate, engVars, ivVars, hesVars, detVars, curveVars,
                   fetchVars>>

\* the function is entered again by its caller with the same eval_date: the
\* next family attempt (line 134), the next row of a group (heston_calibrator.py
\* line 25, heston.py line 52)
ThreadAgain(t) ==
    /\ threads[t].pc = "pricing"
    /\ threads[t].evals >= 1
    /\ threads[t].sets < MaxThreadSets
    /\ threads' = [threads EXCEPT ![t].pc = "start"]
    /\ UNCHANGED <<evaluationDate, engVars, ivVars, hesVars, detVars, curveVars,
                   fetchVars>>

ThreadReturn(t) ==
    /\ threads[t].pc = "pricing"
    /\ threads[t].evals >= 1
    /\ threads' = [threads EXCEPT ![t].pc = "done"]
    /\ UNCHANGED <<evaluationDate, engVars, ivVars, hesVars, detVars, curveVars,
                   fetchVars>>

SetDate   == \E t \in Threads : ThreadSetDate(t)
OracleEval == \E t \in Threads : ThreadOracle(t)
EnterAgain == \E t \in Threads : ThreadAgain(t)
CallReturn == \E t \in Threads : ThreadReturn(t)

InitThreads ==
    /\ evaluationDate = 0
    /\ EngineIdle /\ IvIdle /\ HesIdle
    /\ FreeOracle /\ CurveIdle /\ FetchIdle
    /\ \E c1, c2 \in CoreCalls :
          threads = [t \in Threads |-> NewThread(t, IF t = 1 THEN c1 ELSE c2)]

NextThreads ==
    \/ SetDate
    \/ OracleEval
    \/ EnterAgain
    \/ CallReturn

SpecThreads == InitThreads /\ [][NextThreads]_vars

----------------------------------------------------------------------------
(* interest_rate_interpolation (src/interest/interest_rates.py)             *)
(*                                                                          *)
(* Maturities are in half years (0.5 is 1), yields in units of 1e-5.  The   *)
(* curve is a pandas Series: a sequence of (index, value) pairs in which an *)
(* index value can occur more than once.  The yields and maturities are     *)
(* chosen so that every slope is a whole number of units.                   *)

CurveXs == {2, 4, 6}
CurveYs == {3000, 3500, 4500}
CurvePoints == CurveXs \X CurveYs

Curves ==
    {<<>>} \cup {<<a>> : a \in CurvePoints}
    \cup {<<a, b>> : a \in CurvePoints, b \in CurvePoints}
    \cup {<<a, b, c>> : a \in CurvePoints, b \in CurvePoints, c \in CurvePoints}

Queries == {<<t>> : t \in 1..(MaxQuery)} \cup {<<1, MaxQuery>>}

\* the order of Python tuples (x, y)
PairLe(a, b) == a[1] < b[1] \/ (a[1] = b[1] /\ a[2] <= b[2])

Remove(sq, i) == SubSeq(sq, 1, i - 1) \o SubSeq(sq, i + 1, Len(sq))

\* sorted(zip(xs, ys))
RECURSIVE SortPairs(_)
SortPairs(sq) ==
    IF sq = <<>> THEN <<>>
    ELSE LET i == CHOOSE k \in 1..Len(sq) : \A j \in 1..Len(sq) : PairLe(sq[k], sq[j])
         IN  <<sq[i]>> \o SortPairs(Remove(sq, i))

StrictlyIncreasing(sq) == \A k \in 1..(Len(sq) - 1) : sq[k] < sq[k + 1]

\* lines 93-94: the points for a query below the range
LowerPair(x, y) == [x1 |-> x[1], x2 |-> x[2], y1 |-> y[1], y2 |-> y[2]]

\* mutant: the first two points for a query above the range too
UpperPair_First(x, y) == [x1 |-> x[1], x2 |-> x[2], y1 |-> y[1], y2 |-> y[2]]

\* lines 95-96: the points for a query above the range
UpperPair(x, y) ==
    [x1 |-> x[Len(x) - 1], x2 |-> x[Len(x)], y1 |-> y[Len(y) - 1], y2 |-> y[Len(y)]]

\* lines 97-98; a division by zero raises
Linear(pr, t) ==
    IF pr.x2 - pr.x1 = 0 THEN Throw
    ELSE pr.y1 + ((pr.y2 - pr.y1) \div (pr.x2 - pr.x1)) * (t - pr.x1)

CurveValue(kind, t, v) == [kind |-> kind, at |-> t, value |-> v]

\* lines 70-78: the points are read and sorted; an empty curve raises
CurveSort ==
    /\ cpc = "call"
    /\ IF Len(curve_series) = 0
       THEN cpc' = "raised" /\ UNCHANGED <<xs, ys>>
       ELSE LET srt == SortPairs(curve_series)
            IN  /\ xs' = [k \in 1..Len(srt) |-> srt[k][1]]
                /\ ys' = [k \in 1..Len(srt) |-> srt[k][2]]
                /\ cpc' = "sorted"
    /\ UNCHANGED <<curve_series, x_eval, spline, curve_results>>
    /\ UNCHANGED <<evaluationDate, engVars, ivVars, hesVars, detVars, threads, fetchVars>>

\* lines 80-81: a curve of one point is constant
CurveSingle ==
    /\ cpc = "sorted"
    /\ Len(xs) = 1
    /\ curve_results' = [k \in 1..Len(x_eval) |-> CurveValue("const", x_eval[k], ys[1])]
    /\ cpc' = "done"
    /\ UNCHANGED <<curve_series, x_eval, xs, ys, spline>>
    /\ UNCHANGED <<evaluationDate, engVars, ivVars, hesVars, detVars, threads, fetchVars>>

\* lines 83-85: the spline is built; on maturities that are not strictly
\* increasing QuantLib either refuses or builds a spline of no use
CurveSpline ==
    /\ cpc = "sorted"
    /\ Len(xs) >= 2
    /\ \/ spline' = "built" /\ cpc' = "loop"
       \/ ~StrictlyIncreasing(xs) /\ spline' = spline /\ cpc' = "raised"
    /\ UNCHANGED <<curve_series, x_eval, xs, ys, curve_results>>
    /\ UNCHANGED <<evaluationDate, engVars, ivVars, hesVars, detVars, threads, fetchVars>>

\* lines 87-100: one query
CurveEval ==
    /\ cpc = "loop"
    /\ Len(curve_results) < Len(x_eval)
    /\ LET t == x_eval[Len(curve_results) + 1]
           y == IF xs[1] <= t /\ t <= xs[Len(xs)]
                THEN CurveValue("spline", t, None)
                ELSE IF t < xs[1]
                THEN CurveValue("linear", t, Linear(LowerPair(xs, ys), t))
                ELSE CurveValue("linear", t, Linear(UpperPair(xs, ys), t))
       IN  IF y.value = Throw
           THEN cpc' = "raised" /\ UNCHANGED curve_results
           ELSE cpc' = cpc /\ curve_results' = Append(curve_results, y)
    /\ UNCHANGED <<curve_series, x_eval, xs, ys, spline>>
    /\ UNCHANGED <<evaluationDate, engVars, ivVars, hesVars, detVars, threads, fetchVars>>

\* line 102
CurveReturn ==
    /\ cpc = "loop"
    /\ Len(curve_results) = Len(x_eval)
    /\ cpc' = "done"
    /\ UNCHANGED <<curve_series, x_eval, xs, ys, spline, curve_results>>
    /\ UNCHANGED <<evaluationDate, engVars, ivVars, hesVars, detVars, threads, fetchVars>>

InitCurve ==
    /\ evaluationDate = 0
    /\ EngineIdle /\ IvIdle /\ HesIdle /\ FreeOracle /\ ThreadsIdle /\ FetchIdle
    /\ curve_series \in Curves /\ x_eval \in Queries
    /\ cpc = "call" /\ xs = <<>> /\ ys = <<>> /\ spline = None /\ curve_results = <<>>

NextCurve ==
    \/ CurveSort
    \/ CurveSingle
    \/ CurveSpline
    \/ CurveEval
    \/ CurveReturn

SpecCurve == InitCurve /\ [][NextCurve]_vars

----------------------------------------------------------------------------
(* multi_fetcher (src/utils/multi_fetcher.py)                               *)

\* str(t).strip().upper()
Normalize(t) ==
    CASE t = "a"  -> "A"
      [] t = "b " -> "B"
      [] t = " "  -> ""
      [] OTHER    -> t

TickerArrays == {<<"a">>, <<"a", "B">>, <<"A", "a">>, <<" ", "b ", "A">>}

FetchConfigs ==
    [retry_rounds : 1..MaxRetryRounds, min_permanent_rounds : 1..MaxPermanentRounds]

\* what get_option_chains_all does for one ticker in one round: it returns, or
\* raises an exception that is a rate-limit error or not (_is_rate_limit_error),
\* whose message looks permanent or not (_looks_permanent_msg), the metadata
\* probe agreeing or not
\* (_confirm_permanent_via_info); when it returns, its call frame and its put
\* frame are empty or not (lines 105-108)
FetchOutcomes ==
    [raised : {FALSE}, rate : {FALSE}, perm : {FALSE}, probe : {FALSE},
     c_empty : BOOLEAN, p_empty : BOOLEAN]
    \cup [raised : {TRUE}, rate : BOOLEAN, perm : BOOLEAN, probe : BOOLEAN,
          c_empty : {TRUE}, p_empty : {TRUE}]

\* mutant: a fetched ticker stays in the set
Discard_Keep(rem, t) == rem

\* remaining.discard(t), line 109
Discard(rem, t) == rem \ {t}

\* the test of line 122, reached when line 120 is false
ConfirmedPermanent(o) == o.perm /\ o.probe

\* permanent_hint_counts.get(t, 0)
HintCount(t) ==
    IF t \in DOMAIN permanent_hint_counts THEN permanent_hint_counts[t] ELSE 0

\* lines 76-85
FetchStart ==
    /\ fpc = "call"
    /\ LET tickers == {Normalize(cfg.ticker_array[k]) : k \in 1..Len(cfg.ticker_array)}
                          \ {""}
       IN  /\ remaining' = tickers
           /\ flog' = [t \in tickers |-> [errors |-> 0, confirmed |-> 0,
                                          removed |-> FALSE, last |-> "none",
                                          rounds |-> <<>>, gone |-> 0,
                                          calls |-> 0, puts |-> 0]]
    /\ permanent_hint_counts' = <<>>
    /\ round' = 0
    /\ fpc' = "rounds"
    /\ UNCHANGED <<cfg, round_list, fetched, rt>>
    /\ UNCHANGED <<evaluationDate, engVars, ivVars, hesVars, detVars, threads, curveVars>>

\* lines 87-92: the next round begins, or the loop ends
FetchRound ==
    /\ fpc = "rounds"
    /\ IF round < cfg.retry_rounds /\ remaining # {}
       THEN round' = round + 1 /\ round_list' = remaining /\ fpc' = "tickers"
       ELSE round' = round /\ round_list' = round_list /\ fpc' = "finish"
    /\ UNCHANGED <<cfg, remaining, permanent_hint_counts, fetched, flog, rt>>
    /\ UNCHANGED <<evaluationDate, engVars, ivVars, hesVars, detVars, threads, curveVars>>

\* lines 94-132: one ticker of the round.  flog[t].rounds lists the rounds in
\* which t was fetched, flog[t].gone is the round in which it left
\* `remaining`, flog[t].calls and .puts count its frames in calls_list and
\* puts_list
FetchTicker ==
    /\ fpc = "tickers"
    /\ \E t \in round_list, o \in FetchOutcomes :
         /\ round_list' = round_list \ {t}
         /\ IF ~o.raised
            THEN /\ remaining' = Discard(remaining, t)
                 /\ permanent_hint_counts' =
                        [x \in DOMAIN permanent_hint_counts \ {t} |->
                            permanent_hint_counts[x]]
                 /\ fetched' = fetched \cup {t}
                 /\ flog' = [flog EXCEPT
                                ![t].last = "ok",
                                ![t].rounds = Append(@, round),
                                ![t].gone = round,
                                ![t].calls = IF o.c_empty THEN @ ELSE @ + 1,
                                ![t].puts = IF o.p_empty THEN @ ELSE @ + 1]
            ELSE IF o.rate
            THEN /\ flog' = [flog EXCEPT ![t].errors = @ + 1, ![t].last = "rate limit",
                                         ![t].rounds = Append(@, round)]
                 /\ UNCHANGED <<remaining, permanent_hint_counts, fetched>>
            ELSE IF ConfirmedPermanent(o)
            THEN /\ permanent_hint_counts' =
                        [x \in DOMAIN permanent_hint_counts \cup {t} |->
                            IF x = t THEN HintCount(t) + 1
                            ELSE permanent_hint_counts[x]]
                 /\ remaining' = IF HintCount(t) + 1 >= cfg.min_permanent_rounds
                                 THEN remaining \ {t} ELSE remaining
                 /\ flog' = [flog EXCEPT
                                ![t].errors = @ + 1,
                                ![t].confirmed = @ + 1,
                                ![t].removed = (HintCount(t) + 1 >= cfg.min_permanent_rounds),
                                ![t].last = "permanent",
                                ![t].rounds = Append(@, round),
                                ![t].gone = IF HintCount(t) + 1 >= cfg.min_permanent_rounds
                                            THEN round ELSE @]
                 /\ fetched' = fetched
            ELSE /\ flog' = [flog EXCEPT ![t].errors = @ + 1, ![t].last = "transient",
                                         ![t].rounds = Append(@, round)]
                 /\ UNCHANGED <<remaining, permanent_hint_counts, fetched>>
    /\ UNCHANGED <<cfg, round, fpc, rt>>
    /\ UNCHANGED <<evaluationDate, engVars, ivVars, hesVars, detVars, threads, curveVars>>

\* the inner loop of line 94 ends
FetchRoundEnd ==
    /\ fpc = "tickers"
    /\ round_list = {}
    /\ fpc' = "rounds"
    /\ UNCHANGED <<cfg, remaining, permanent_hint_counts, round, round_list, fetched, flog,
                   rt>>
    /\ UNCHANGED <<evaluationDate, engVars, ivVars, hesVars, detVars, threads, curveVars>>

\* lines 134-143
FetchFinish ==
    /\ fpc = "finish"
    /\ fpc' = "done"
    /\ UNCHANGED <<cfg, remaining, permanent_hint_counts, round, round_list, fetched, flog,
                   rt>>
    /\ UNCHANGED <<evaluationDate, engVars, ivVars, hesVars, detVars, threads, curveVars>>

InitFetch ==
    /\ evaluationDate = 0
    /\ EngineIdle /\ IvIdle /\ HesIdle /\ FreeOracle /\ ThreadsIdle /\ CurveIdle
    /\ \E a \in TickerArrays, c \in FetchConfigs :
          cfg = [ticker_array |-> a, retry_rounds |-> c.retry_rounds,
                 min_permanent_rounds |-> c.min_permanent_rounds]
    /\ fpc = "call" /\ remaining = {} /\ permanent_hint_counts = <<>> /\ round = 0
    /\ round_list = {} /\ fetched = {} /\ flog = <<>> /\ rt = NoRetry

NextFetch ==
    \/ FetchStart
    \/ FetchRound
    \/ FetchTicker
    \/ FetchRoundEnd
    \/ FetchFinish

SpecFetch == InitFetch /\ [][NextFetch]_vars

\* every call the function makes returns or raises, and it waits for nothing
\* else
SpecFetchFair == SpecFetch /\ WF_vars(NextFetch)

----------------------------------------------------------------------------
(* _retry (src/utils/data_fetcher.py)                                       *)

\* the substrings of the lower-cased message tested at lines 28-35; a
\* message is represented by the one of them it contains, if any
RateLimitHints ==
    {"too many requests", "rate limit", "429", "yf ratelimit",
     "temporarily unavailable", "timed out", "timeout", "ssl"}

\* lines 18-36
_is_rate_limit_error(e) == e.code = 429 \/ e.msg \in RateLimitHints

\* what fn() does: it returns a value, or raises an exception with a
\* response status code (if any) and a message
FnOutcomes ==
    [kind : {"value"}, code : {None}, msg : {"chain", "none"}, n : {0}]
    \cup [kind : {"error"}, code : {None, 429, 404},
          msg : {"timed out", "delisted"}, n : {0}]

\* mutant: one call more before giving up
GiveUp_Late(e, attempt, tries) == ~_is_rate_limit_error(e) \/ attempt > tries

\* the test of line 68, after the increment of line 67
GiveUp(e, attempt, tries) == ~_is_rate_limit_error(e) \/ attempt >= tries

\* lines 62-69: fn is called; its value is returned, or its exception is
\* counted and either raised again or followed by a sleep
RetryCall ==
    /\ rt.pc = "call"
    /\ \E o \in FnOutcomes :
         LET lg == Append(rt.log, o) IN
         IF o.kind = "value"
         THEN rt' = [rt EXCEPT !.pc = "returned", !.out = o, !.log = lg]
         ELSE IF GiveUp(o, rt.attempt + 1, rt.tries)
         THEN rt' = [rt EXCEPT !.pc = "raised", !.out = o, !.log = lg,
                               !.attempt = @ + 1]
         ELSE rt' = [rt EXCEPT !.pc = "sleep", !.log = lg, !.attempt = @ + 1]
    /\ UNCHANGED <<cfg, fpc, remaining, permanent_hint_counts, round, round_list,
                   fetched, flog>>
    /\ UNCHANGED <<evaluationDate, engVars, ivVars, hesVars, detVars, threads, curveVars>>

\* line 70 and lines 52-54: the backoff sleep, then the loop calls fn again
RetrySleep ==
    /\ rt.pc = "sleep"
    /\ rt' = [rt EXCEPT !.pc = "call",
                        !.log = Append(@, [kind |-> "sleep", code |-> None,
                                           msg |-> "", n |-> rt.attempt])]
    /\ UNCHANGED <<cfg, fpc, remaining, permanent_hint_counts, round, round_list,
                   fetched, flog>>
    /\ UNCHANGED <<evaluationDate, engVars, ivVars, hesVars, detVars, threads, curveVars>>

InitRetry ==
    /\ evaluationDate = 0
    /\ EngineIdle /\ IvIdle /\ HesIdle /\ FreeOracle /\ ThreadsIdle /\ CurveIdle
    /\ cfg = <<>> /\ fpc = "idle" /\ remaining = {} /\ permanent_hint_counts = <<>>
    /\ round = 0 /\ round_list = {} /\ fetched = {} /\ flog = <<>>
    /\ \E n \in 1..MaxTries :
          rt = [tries |-> n, attempt |-> 0, pc |-> "call", log |-> <<>>, out |-> <<>>]

NextRetry ==
    \/ RetryCall
    \/ RetrySleep

SpecRetry == InitRetry /\ [][NextRetry]_vars

----------------------------------------------------------------------------
(* Claims about the De-Americanization Engine, checked under Spec *)

\* the order the families are to be attempted in: the preferred family, then
\* jr, trigeorgis, tian, crr, lr without the preferred one
ExpectedOrder(t) ==
    <<Lower(t)>> \o SelectSeq(<<"jr", "trigeorgis", "tian", "crr", "lr">>,
                              LAMBDA f : f # Lower(t))

EngineRunning == epc \notin {"idle", "call"}

\* C1: families are attempted in the order preferred, jr, trigeorgis, tian,
\* crr, lr with duplicates skipped, each at most once; a family is attempted
\* only while no earlier attempt was accepted; the engine returns the price of
\* the first accepted attempt, and attempts nothing after it has returned.
C1_Step ==
    /\ attempts' = SubSeq(ExpectedOrder(tree'), 1, Len(attempts'))
    /\ \A i, j \in 1..Len(attempts') : i # j => attempts'[i] # attempts'[j]
    /\ attempts' # attempts =>
          /\ attempts' = Append(attempts, ExpectedOrder(tree)[Len(attempts) + 1])
          /\ epc # "done"
          /\ ~Accepted(ret)
    /\ (epc' = "done" /\ epc # "done") =>
          /\ attempts' = attempts
          /\ IF ret.p # None /\ IsFinite(ret.p) /\ ret.p > 0
             THEN result' = ret.p
             ELSE result' = None /\ attempts = ExpectedOrder(tree)

C1_FallbackOrder == [][C1_Step]_vars

C1_Witness ==
    /\ epc = "done" /\ result = EuPriceB
    /\ tree = "Tian" /\ attempts = <<"tian", "jr", "trigeorgis">>

\* C2: a call quote with |q| <= 1e-4 that passes the input guards and the
\* no-arbitrage check makes no pricing-oracle call, is attempted once, and the
\* engine returns exactly its mid price, for every preferred family and step
\* count.
C2_Pre ==
    /\ ~BadInputs(row)
    /\ NoArbOk(row)
    /\ Lower(row.optionType) = "call"
    /\ Le(Abs(row.dividendYield), 10)

C2_ShortcutReturnsMid ==
    (EngineRunning /\ C2_Pre) =>
        /\ calls = {}
        /\ epc \notin {"setup", "bracket", "expand", "solve", "eu", "raised"}
        /\ Len(attempts) <= 1
        /\ epc = "done" => result = row.midPrice

C2_Witness ==
    /\ epc = "done" /\ C2_Pre /\ result = 10450000
    /\ tree = "foo" /\ steps = 1 /\ attempts = <<"foo">>

\* C3: a quote that passes the input guards and whose price lies outside
\* [lower - 1e-8, upper + 1e-8] (a bound that is nan admits no price) never
\* reaches the pricing oracle in any family attempt, and the engine returns
\* failure.
C3_Lower(x) ==
    IF Lower(x.optionType) = "call"
    THEN PyMax(0, Sub(Mul(x.spot_price, df_q(x)), Mul(x.strike, df_r(x))))
    ELSE PyMax(0, Sub(Mul(x.strike, df_r(x)), Mul(x.spot_price, df_q(x))))

C3_Upper(x) ==
    IF Lower(x.optionType) = "call"
    THEN Mul(x.spot_price, df_q(x))
    ELSE Mul(x.strike, df_r(x))

C3_Outside(x) ==
    /\ ~BadInputs(x)
    /\ ~(Le(Sub(C3_Lower(x), 1), x.midPrice) /\ Le(x.midPrice, Add(C3_Upper(x), 1)))

C3_NoArbNoOracle ==
    (EngineRunning /\ C3_Outside(row)) =>
        /\ calls = {}
        /\ epc \notin {"setup", "bracket", "expand", "solve", "eu", "raised"}
        /\ epc = "done" => result = None

C3_Witness ==
    /\ epc = "done" /\ result = None
    /\ row = [BaseCall EXCEPT !.midPrice = 98019869]
    /\ ret.err = "no-arb violation"
    /\ attempts = <<"eqp", "jr", "trigeorgis", "tian", "crr", "lr">>

\* C4: the engine always comes to return; what it returns is failure or a
\* finite, strictly positive price; and when the last attempt failed too it
\* returns failure after every family of the sequence was attempted exactly
\* once.
C4_AllFail ==
    /\ (EngineRunning /\ epc \notin {"done", "raised"}) => ENABLED Next
    /\ epc = "done" =>
          \/ result = None
          \/ IsFinite(result) /\ result > 0 /\ result < PosInf
    /\ (epc = "done" /\ ~(ret.p # None /\ IsFinite(ret.p) /\ ret.p > 0)) =>
          /\ result = None
          /\ attempts = ExpectedOrder(tree)

C4_Witness ==
    /\ epc = "done" /\ result = None /\ ret.p = 0
    /\ steps = 400 /\ attempts = <<"jr", "trigeorgis", "tian", "crr", "lr">>

\* C5: when the American oracle throws or returns a non-finite value, f is
\* nan at that volatility and nothing is raised: the attempt goes on, or
\* returns a failure value to the family loop, which goes on to the families
\* left.
NonFiniteOut(o) == o = Throw \/ o = NaN \/ o = PosInf

C5_OracleFaultContained ==
    /\ epc # "raised"
    /\ \A k \in 1..Len(amLog) :
          NonFiniteOut(amLog[k].out) =>
              /\ amLog[k].f = NaN
              /\ ~amLog[k].raised
              /\ \/ epc \in {"expand", "solve"}
                 \/ epc = "check" /\ ret.p = None
    /\ (epc = "tree" /\ ti > 1) => ret.p = None \/ ~IsFinite(ret.p) \/ ret.p <= 0
    /\ (epc = "done" /\ result = None) => Len(attempts) = Len(ExpectedOrder(tree))

C5_Witness ==
    /\ epc = "solve" /\ ti >= 2
    /\ Len(amLog) = 1 /\ amLog[1].out = Throw /\ amLog[1].f = NaN

----------------------------------------------------------------------------
(* Claims about the Implied Volatility Extractor, checked under SpecIV *)

SolverCalled ==
    \E k \in 1..Len(ivcalls) : ivcalls[k] \in {"impliedVolatility", "bisection"}

EngineCalled == epc # "idle" \/ \E k \in 1..Len(ivcalls) : ivcalls[k] = "deam"

C6_Unusable(v) == v = None \/ ~IsFinite(v) \/ Le(v, 0)

C6_Invalid(x) ==
    \/ C6_Unusable(x.spot_price)
    \/ C6_Unusable(x.strike)
    \/ C6_Unusable(x.TTM)
    \/ C6_Unusable(x.midPrice)

\* C6: for a quote in which S, K, T or the mid price is missing, non-finite or
\* non-positive the extractor returns failure and invokes neither the engine
\* nor the primary solver nor the bisection, with and without use_deam.
C6_RejectsInvalidInput ==
    (ivpc # "idle" /\ C6_Invalid(row)) =>
        /\ ~EngineCalled
        /\ ~SolverCalled
        /\ ivpc \in {"call", "done"}
        /\ ivpc = "done" => iv = None

\* C7: with use_deam the solvers are only ever given the price the engine
\* returned, which is then finite and positive, and after a failed engine call
\* the extractor returns failure with no solver invoked; without use_deam the
\* engine is never entered and the solvers are given the raw mid price.
C7_TargetPrice ==
    /\ ~use_deam =>
          /\ ~EngineCalled
          /\ (ivpc \in {"primary", "bisect"} \/ SolverCalled) =>
                price_for_iv = row.midPrice
    /\ (use_deam /\ (ivpc \in {"primary", "bisect"} \/ SolverCalled)) =>
          /\ epc = "done"
          /\ price_for_iv = result
          /\ result # None /\ IsFinite(result) /\ result > 0
    /\ (use_deam /\ ivpc = "done" /\ epc = "done"
            /\ (result = None \/ ~IsFinite(result) \/ result <= 0)) =>
          /\ iv = None
          /\ ivcalls = <<"deam">>

C7_Witness ==
    /\ use_deam /\ ivpc = "done" /\ row = BasePut
    /\ result = EuPriceA /\ price_for_iv = EuPriceA
    /\ ivcalls = <<"deam", "impliedVolatility", "bisection">>
    /\ iv # None /\ iv = bis.mid

----------------------------------------------------------------------------
(* Claims about the Heston pipeline, checked under SpecHeston *)

\* the rows of group g for which the extractor returns a volatility
ValidRows(g) == {l \in DOMAIN df : df[l].ticker = g /\ oracle.iv[l] # None}

StatusOf(g) == hlog.status[TickerNo(g)]

\* C8: the optimizer is run on a group exactly when at least 5 of its rows
\* gave an implied volatility; with 4 or fewer the group is refused and the
\* optimizer is not run for it.
C8_OptimizerGate ==
    /\ hpc = "optimize" => Cardinality(ValidRows(gkey)) >= 5
    /\ \A g \in GroupKeys(df) :
          /\ StatusOf(g) = "insufficient" => Cardinality(ValidRows(g)) <= 4
          /\ StatusOf(g) \in {"calibrated", "optimizer failed"} =>
                Cardinality(ValidRows(g)) >= 5
          /\ hpc = "done" => StatusOf(g) # "none"

C8_Witness ==
    /\ hpc = "done" /\ run = 1
    /\ StatusOf("A") = "insufficient" /\ Cardinality(ValidRows("A")) = 4
    /\ StatusOf("B") = "calibrated" /\ Cardinality(ValidRows("B")) = 5
    /\ Len(GroupIndex(df, "B")) = 6

\* C9: a failed calibration never ends the call; the rows of a group whose
\* calibration failed stay absent and are never priced; a call that returns
\* has calibrated or refused every group; and the call ends as, and returns
\* for every other row what, the call on the frame without the failed groups
\* does, whatever the order the groups are taken in.
C9_FailedGroupIsolated ==
    /\ hpc = "raised" => StatusOf(gkey) = "calibrated"
    /\ hpc \notin {"idle", "call"} =>
          \A l \in DOMAIN df :
              df[l].ticker \in FailedGroups(hlog) =>
                  results[l] = Absent /\ l \notin hlog.priced
    /\ hpc = "done" => \A g \in GroupKeys(df) : StatusOf(g) # "none"
    /\ (run = 2 /\ hpc \in {"done", "raised"}) =>
          /\ hpc = out1.status
          /\ hpc = "done" => \A l \in DOMAIN df : results[l] = out1.results[l]

C9_Witness ==
    /\ run = 2 /\ hpc = "done"
    /\ FailedGroups(out1.hlog) = {"B"}
    /\ out1.hlog.status[2] = "optimizer failed"
    /\ results[1].kind = "price" /\ results[3].kind = "price"
    /\ out1.results[2] = Absent

\* C10: an exception of the Heston engine while one row is priced does not
\* end the call: the row is absent in the result and every other row of the
\* calibrated groups has its Heston price.
C10_PricingFailureIsolated ==
    /\ hpc # "raised"
    /\ hpc = "done" =>
          \A l \in DOMAIN df :
              StatusOf(df[l].ticker) = "calibrated" =>
                  results[l].kind = (IF oracle.px[l] \in {Throw, NaN} THEN "nan"
                                     ELSE "price")

\* the model fitted to group g: the helpers of its rows that gave an implied
\* volatility, in frame order
C11_ModelOf(g) ==
    LET ix == SortedSeq(ValidRows(g))
    IN  [k \in 1..Len(ix) |->
            [idx |-> ix[k], strike |-> df[ix[k]].strike, iv |-> oracle.iv[ix[k]]]]

\* C11: the result has exactly the index of the input frame, and the entry at
\* every label is absent or is the Heston price of the row at that label under
\* the model fitted to the group of that row; a stored price is never that of
\* another row or of another group's model.
C11_IndexStable ==
    hpc \notin {"idle", "call"} =>
        /\ DOMAIN results = DOMAIN df
        /\ \A l \in DOMAIN df :
              \/ results[l] = Absent
              \/ /\ results[l] = [kind |-> "price", idx |-> l,
                                  model |-> C11_ModelOf(df[l].ticker)]
                 /\ StatusOf(df[l].ticker) = "calibrated"
                 /\ oracle.px[l] = 0

C11_Witness ==
    /\ hpc = "done" /\ run = 1
    /\ \A l \in DOMAIN df : results[l].kind = "price" /\ results[l].idx = l
    /\ Len(results[1].model) = 5 /\ Len(GroupIndex(df, "A")) = 6
    /\ results[1].model # results[2].model

----------------------------------------------------------------------------
(* Claims about calls in threads, checked under SpecThreads *)

\* C12: every evaluation of the pricing oracle made by a call computes with
\* that call's own evaluation date, however two calls with different
\* evaluation dates are interleaved.
C12_OwnEvaluationDate ==
    \A t \in DOMAIN threads : threads[t].seen \subseteq {threads[t].eval_date}

----------------------------------------------------------------------------
(* Claims about repeated calls of the engine, checked under SpecTwice *)

\* C13: with a pricing oracle that is a function of its inputs, the second of
\* two calls of the engine with the same quote, evaluation date, step count and
\* preferred family attempts the same families in the same order and ends with
\* the same price or the same failure as the first.
C13_Idempotent ==
    runs # <<>> =>
        /\ Len(attempts) <= Len(runs[1].attempts)
        /\ attempts = SubSeq(runs[1].attempts, 1, Len(attempts))
        /\ epc \in {"done", "raised"} =>
              /\ epc = runs[1].epc
              /\ result = runs[1].result
              /\ attempts = runs[1].attempts

C13_Witness ==
    /\ runs # <<>> /\ epc = "done"
    /\ row = BasePut /\ tree = "LR"
    /\ result = EuPriceB /\ runs[1].result = EuPriceB
    /\ attempts = <<"lr", "jr", "trigeorgis">>

----------------------------------------------------------------------------
(* More claims about the De-Americanization Engine, checked under Spec *)

\* C14: whenever the European price is evaluated after a root solve, the
\* American oracle's price at sigma*, with the family and step count of the
\* attempt, is within 1e-8 of the quote's price P.
C14_RootReproducesPrice ==
    epc = "eu" => (IsFinite(L.f_root) /\ Abs(L.f_root) <= 1)

\* the bounds of a quote with the discount factors the engine computed
C15_IsCall(x) == Lower(x.optionType) = "call"

C15_Bounds(x) ==
    LET Sq == x.spot_price * df_q(x)
        Kr == x.strike * df_r(x)
    IN  IF C15_IsCall(x)
        THEN [lower |-> IF Sq - Kr > 0 THEN Sq - Kr ELSE 0, upper |-> Sq]
        ELSE [lower |-> IF Kr - Sq > 0 THEN Kr - Sq ELSE 0, upper |-> Kr]

\* C15: with finite S, K and discount factors, an attempt on a quote that
\* passed the input guards is refused as a no-arbitrage violation exactly when
\* P is outside [lower - 1e-8, upper + 1e-8], with the call bounds for a call
\* and the put bounds for a put and for every other right.
C15_NoArbFilter ==
    (/\ EngineRunning /\ attempts # <<>>
     /\ ~BadInputs(row)
     /\ IsNum(row.spot_price) /\ IsNum(row.strike)
     /\ IsFinite(df_r(row)) /\ IsFinite(df_q(row))) =>
        ((ret.err = "no-arb violation") <=>
            ~(/\ C15_Bounds(row).lower - 1 <= row.midPrice
              /\ row.midPrice <= C15_Bounds(row).upper + 1))

C15_Witness ==
    /\ epc = "check" /\ ti = 1
    /\ row.optionType = "straddle" /\ row.midPrice = 97044555
    /\ ret.err = "no-arb violation"

----------------------------------------------------------------------------
(* Claims about the yield curve, checked under SpecCurve *)

C16_Xs == {curve_series[k][1] : k \in 1..Len(curve_series)}

C16_Distinct == Cardinality(C16_Xs) = Len(curve_series)

\* the yield supplied for maturity x
C16_Y(x) == curve_series[CHOOSE k \in 1..Len(curve_series) : curve_series[k][1] = x][2]

\* the n-th smallest maturity of the curve
C16_Nth(n) == CHOOSE x \in C16_Xs : Cardinality({z \in C16_Xs : z < x}) = n - 1

\* y1 + (y2 - y1)/(x2 - x1) * (t - x1), times (x2 - x1)
C16_LineTimesDx(x1, x2, t) ==
    C16_Y(x1) * (x2 - x1) + (C16_Y(x2) - C16_Y(x1)) * (t - x1)

\* C16: on a curve of at least two points with distinct maturities the
\* function does not raise, and the value computed for a query below the
\* smallest maturity is the line through the first two sorted points, for a
\* query above the largest maturity the line through the last two, and for a
\* query inside the range the interpolant's value; the curve {(1, 0.03),
\* (2, 0.035)} gives 0.0275 at 0.5.
C16_Extrapolation ==
    (cpc # "idle" /\ Len(curve_series) >= 2 /\ C16_Distinct) =>
        /\ cpc # "raised"
        /\ \A k \in 1..Len(curve_results) :
              LET t == x_eval[k]
                  n == Cardinality(C16_Xs)
                  v == curve_results[k]
              IN  IF t < C16_Nth(1)
                  THEN /\ v.kind = "linear"
                       /\ v.value * (C16_Nth(2) - C16_Nth(1))
                            = C16_LineTimesDx(C16_Nth(1), C16_Nth(2), t)
                  ELSE IF t > C16_Nth(n)
                  THEN /\ v.kind = "linear"
                       /\ v.value * (C16_Nth(n) - C16_Nth(n - 1))
                            = C16_LineTimesDx(C16_Nth(n - 1), C16_Nth(n), t)
                  ELSE v.kind = "spline" /\ v.at = t
        /\ (cpc = "done" /\ curve_series = <<<<2, 3000>>, <<4, 3500>>>> /\ x_eval = <<1>>) =>
              curve_results = <<[kind |-> "linear", at |-> 1, value |-> 2750]>>

C16_Witness ==
    /\ cpc = "done"
    /\ curve_series = <<<<6, 4500>>, <<2, 3000>>, <<4, 3500>>>>
    /\ x_eval = <<1, 7>>
    /\ curve_results[1].value = 2750 /\ curve_results[2].value = 5000

\* C17: after the sort every maturity supplied is kept once, with the last
\* value supplied for it, the sorted maturities are strictly increasing, and
\* no extrapolation divides by zero.
C17_Deduplicated ==
    /\ cpc \in {"sorted", "loop", "done"} =>
          /\ StrictlyIncreasing(xs)
          /\ \A i \in 1..Len(curve_series) :
                (\A j \in (i + 1)..Len(curve_series) :
                    curve_series[j][1] # curve_series[i][1]) =>
                        \E k \in 1..Len(xs) :
                            xs[k] = curve_series[i][1] /\ ys[k] = curve_series[i][2]
    /\ (cpc = "raised") => curve_series = <<>>

----------------------------------------------------------------------------
(* More claims about the Implied Volatility Extractor, checked under SpecIV *)

\* C18: for a quote with q > 1.0 the engine prices with q/100 and the
\* extractor builds its Black-Scholes process with q/100; the quote itself is
\* not changed.
C18_CorrectedQDownstream ==
    (ivpc # "idle" /\ Gt(row.dividendYield, 100000)) =>
        /\ epc \in {"setup", "bracket", "expand", "solve", "eu"} =>
              L.q = row.dividendYield \div 100
        /\ iv_q # None => iv_q = row.dividendYield \div 100
        /\ row \in IvQuotes

----------------------------------------------------------------------------
(* Claims about multi_fetcher, checked under SpecFetch *)

\* C19: a ticker that left the remaining set without data has had at least
\* min_permanent_rounds rounds whose error was confirmed permanent, left in
\* such a round, and had at least one error before the one it left on; a
\* ticker whose every round ended in an error without that is still in the
\* remaining set when the function ends.
C19_ConservativeRemoval ==
    \A t \in DOMAIN flog :
        /\ (t \notin remaining /\ t \notin fetched) =>
              /\ flog[t].removed
              /\ flog[t].confirmed >= cfg.min_permanent_rounds
              /\ flog[t].last = "permanent"
              /\ flog[t].errors >= 2
        /\ (fpc = "done" /\ ~flog[t].removed /\ t \notin fetched) => t \in remaining

----------------------------------------------------------------------------
(* Claims about the bracket search, checked under Spec *)

\* both endpoint values are defined and they do not have the same sign
C20_Bracketed(l) ==
    /\ l.f_lo \notin {NaN, PosInf, None} /\ l.f_hi \notin {NaN, PosInf, None}
    /\ \/ l.f_lo = 0 \/ l.f_hi = 0
       \/ (l.f_lo < 0 /\ l.f_hi > 0) \/ (l.f_lo > 0 /\ l.f_hi < 0)

C20_Step ==
    /\ (epc = "bracket" /\ epc' = "expand") =>
          L'.lo = 10 /\ L'.hi = 60000 /\ L'.expands = 0
    /\ (epc = "expand" /\ epc' = "expand") =>
          /\ ~C20_Bracketed(L)
          /\ L.expands < 12
          /\ L'.expands = L.expands + 1
    /\ (epc = "expand" /\ epc' = "solve") =>
          /\ C20_Bracketed(L) /\ [L' EXCEPT !.guess = None] = L
          /\ calls' = {"AmericanNPV"}
    /\ (epc = "expand" /\ epc' = "check") =>
          /\ ~C20_Bracketed(L) /\ L.expands = 12
          /\ ret'.p = None /\ ret'.err = "no sigma bracket"
          /\ calls' = {"AmericanNPV"}
    /\ ("BrentSolve" \in calls' \ calls) =>
          /\ epc = "solve"
          /\ L.evals = 0 => C20_Bracketed(L)
    /\ ("EuropeanNPV" \in calls' \ calls) => "BrentSolve" \in calls
    /\ epc' = "expand" => L'.expands <= 12

\* C20: in one attempt the bracket search starts at (1e-3, 6.0), expands only
\* while an endpoint value is undefined or both have the same sign, at most 12
\* times; the root finder is invoked only on a bracket whose endpoint values
\* are defined and not of the same sign; an attempt without such a bracket
\* after 12 expansions fails with no-bracket, the root finder and the
\* European pricer not having been invoked.
C20_BracketSearch == [][C20_Step]_vars

C20_Witness ==
    /\ epc = "solve" /\ L.evals = 1 /\ L.expands = 12
    /\ "BrentSolve" \in calls

----------------------------------------------------------------------------
(* Claims about the solvers of the extractor, checked under SpecIV *)

\* the bisection fallback has been started
BisectionStarted ==
    \/ ivpc = "bisect"
    \/ bis.evals > 0
    \/ \E k \in DOMAIN ivcalls : ivcalls[k] = "bisection"

\* what line 44 did is no finite positive volatility
C21_PrimaryFailed ==
    /\ bis.raw # None
    /\ (bis.raw = Throw \/ ~IsFinite(bis.raw) \/ Le(bis.raw, 0))

\* C21: the bisection fallback is started only after the primary solver has
\* raised or returned a non-finite or non-positive value, and directly after
\* it; a finite positive value of the primary solver is the extractor's
\* result, and then the bisection is never run; a value returned without the
\* bisection is such a value of the primary solver.
C21_PrimaryThenBisection ==
    /\ BisectionStarted => C21_PrimaryFailed
    /\ \A k \in DOMAIN ivcalls :
          ivcalls[k] = "bisection" => (k > 1 /\ ivcalls[k - 1] = "impliedVolatility")
    /\ (bis.raw # None /\ ~C21_PrimaryFailed) =>
          /\ ivpc = "done"
          /\ iv = bis.raw
          /\ ~BisectionStarted
    /\ (ivpc = "done" /\ iv # None /\ ~BisectionStarted) =>
          /\ iv = bis.raw
          /\ IsFinite(iv) /\ iv > 0

C21_Witness ==
    /\ ivpc = "done" /\ use_deam
    /\ bis.raw = 0
    /\ ivcalls = <<"deam", "impliedVolatility", "bisection">>
    /\ bis.evals > 1
    /\ iv = bis.mid /\ iv # None

\* the three ways the bisection ends
C22_Returned ==
    /\ iv # None /\ iv = bis.mid
    /\ bis.p_mid = BsNPV(bis.pricer, bis.mid, price_for_iv)
    /\ bis.p_mid # Throw /\ IsFinite(bis.p_mid)
    /\ Lt(Abs(Sub(bis.p_mid, price_for_iv)), PriceTol)

C22_NumericalFailure ==
    /\ iv = None
    /\ bis.evals = it + 1
    /\ (bis.p_mid = Throw \/ ~IsFinite(bis.p_mid))

C22_NoConvergence ==
    /\ iv = None
    /\ it = BisectIters /\ bis.evals = BisectIters
    /\ bis.p_mid # Throw /\ IsFinite(bis.p_mid)
    /\ ~Lt(Abs(Sub(bis.p_mid, price_for_iv)), PriceTol)

C22_Outcomes ==
    /\ bis.evals <= BisectIters
    /\ ivpc = "bisect" => bis.evals = it
    /\ (ivpc = "done" /\ BisectionStarted) =>
          /\ C22_Returned \/ C22_NumericalFailure \/ C22_NoConvergence
          /\ ~(C22_Returned /\ C22_NumericalFailure)
          /\ ~(C22_Returned /\ C22_NoConvergence)
          /\ ~(C22_NumericalFailure /\ C22_NoConvergence)

\* C22: the bisection fallback always ends, after at most 120 evaluations of
\* the price at a midpoint, in exactly one of three ways: it returns a
\* midpoint whose price is within 1e-8 of the target, it fails at the first
\* iteration whose price is non-finite or whose evaluation raises, or it
\* fails after 120 iterations; it never returns a volatility for which the
\* convergence test did not hold.
C22_BisectionTerminates ==
    /\ []C22_Outcomes
    /\ (ivpc = "bisect") ~> (ivpc = "done")

C22_Witness ==
    /\ ivpc = "done" /\ bis.pricer = "step"
    /\ it = BisectIters /\ bis.evals = BisectIters
    /\ iv = None

\* the price functions that are non-decreasing in the volatility
C23_NonDecreasing == {"rising", "step", "above"}

\* the price is non-decreasing and price(1e-9) <= target <= price(12.0)
C23_Pre ==
    /\ bis.pricer \in C23_NonDecreasing
    /\ IsNum(price_for_iv)
    /\ BsNPV(bis.pricer, BisectLo, price_for_iv) <= price_for_iv
    /\ price_for_iv <= BsNPV(bis.pricer, BisectHi, price_for_iv)

\* the bracket after an iteration lies in [1e-9, 12.0] and still holds a
\* volatility that reprices to the target
C23_Contains(b) ==
    /\ BisectLo <= b.lo /\ b.lo <= b.hi /\ b.hi <= BisectHi
    /\ BsNPV(b.pricer, b.lo, price_for_iv) <= price_for_iv
    /\ price_for_iv <= BsNPV(b.pricer, b.hi, price_for_iv)

C23_Iteration == ivpc = "bisect" /\ ivpc' = "bisect" /\ it' = it + 1

C23_Step ==
    (C23_Iteration /\ C23_Pre) =>
        /\ C23_Contains(bis')
        /\ 2 * (bis'.hi - bis'.lo) = bis.hi - bis.lo

\* C23: if the European price is non-decreasing in the volatility and
\* price(1e-9) <= target <= price(12.0), then after every iteration of the
\* bisection 1e-9 <= lo <= hi <= 12.0 and price(lo) <= target <= price(hi),
\* and hi - lo is exactly half of what it was before the iteration.
C23_BracketHalves == [][C23_Step]_vars

----------------------------------------------------------------------------
(* Claims about the bracket and the root solve of a family attempt, checked *)
(* under Spec                                                               *)

\* the smaller of two volatilities
C24_Min(a, b) == IF a <= b THEN a ELSE b

\* the root finder has been invoked with the bracket in L
C24_SolveInvoked == epc \in {"solve", "eu"} /\ L.guess # None

\* C24: whenever the root finder is invoked in a family attempt, the initial
\* guess handed to it equals min(max(0.30, lo*1.5), hi) and lies inside the
\* bracket [lo, hi] of the same call, whatever bracket the expansion loop
\* has produced.
C24_GuessInsideBracket ==
    /\ epc \in {"solve", "eu"} => L.guess # None
    /\ C24_SolveInvoked =>
          /\ L.guess = C24_Min(Max(VolStart, (L.lo * 15) \div 10), L.hi)
          /\ L.lo <= L.guess /\ L.guess <= L.hi
          /\ L.expands <= MaxExpands

C24_Witness ==
    /\ epc = "solve" /\ L.expands = MaxExpands
    /\ L.guess = VolStart /\ L.lo = SigmaFloor /\ L.hi > HiStart
    /\ L.evals = 1 /\ L.vol = L.guess

\* 6.0 * 1.7^k at the resolution of the engine's volatilities
RECURSIVE C28_Hi(_)
C28_Hi(k) == IF k = 0 THEN HiStart ELSE (C28_Hi(k - 1) * 17) \div 10

\* the bracket search is under way or has handed its bracket to the solve
C28_HasBracket == epc \in {"expand", "solve", "eu"} /\ L.lo # None

\* C28: every volatility at which the American oracle is evaluated during a
\* family attempt is at least the floor 1e-3; throughout the bracket
\* expansion lo stays equal to the floor, so that only hi changes, and after
\* k expansions hi = 6.0 * 1.7^k with k <= 12.
C28_FlooredBracket ==
    /\ \A k \in DOMAIN amLog : amLog[k].sigma >= SigmaFloor
    /\ C28_HasBracket =>
          /\ L.lo = SigmaFloor
          /\ L.expands \in 0..MaxExpands
          /\ L.hi = C28_Hi(L.expands)

C28_Witness ==
    /\ epc = "expand" /\ L.expands = MaxExpands
    /\ L.lo = SigmaFloor /\ L.hi = C28_Hi(MaxExpands)
    /\ Len(amLog) = 2 /\ amLog[1].sigma = SigmaFloor /\ amLog[2].sigma = L.hi

----------------------------------------------------------------------------
(* Claims about the helper loop of _calibrate_heston, checked under         *)
(* SpecHeston                                                               *)

\* the extractor returns a volatility for row l
C25_Extracted(l) == oracle.iv[l] # None

\* the rows of the group in hand that the loop of line 24 has been through
C25_Processed ==
    LET G == GroupIndex(df, gkey)
    IN  SubSeq(G, 1, Len(G) - Len(rows))

\* C25: in _calibrate_heston the extractor is run once for each quote of the
\* group, in group order and with de-Americanization; the helper list holds
\* exactly one helper for each quote whose extraction gave a volatility, in
\* group order, and none for a quote whose extraction returned failure; and
\* the list is handed to the sufficiency test and to the optimizer only when
\* every quote of the group has been through the extractor, whatever
\* failed before.
C25_OneHelperPerExtractedQuote ==
    /\ hpc \in {"calib_rows", "optimize"} =>
          LET done  == C25_Processed
              valid == SelectSeq(done, C25_Extracted)
          IN  /\ hlog.iv_calls = [k \in 1..Len(done) |->
                                     [idx |-> done[k], use_deam |-> TRUE]]
              /\ Len(helpers) = Len(valid)
              /\ \A k \in 1..Len(valid) :
                    /\ helpers[k].idx = valid[k]
                    /\ helpers[k].iv = oracle.iv[valid[k]]
                    /\ helpers[k].strike = df[valid[k]].strike
    /\ hpc = "optimize" =>
          /\ rows = <<>>
          /\ Len(hlog.iv_calls) = Len(GroupIndex(df, gkey))
    /\ \A g \in GroupKeys(df) :
          (g = gkey /\ StatusOf(g) # "none") =>
              Len(hlog.iv_calls) = Len(GroupIndex(df, g))

C25_Witness ==
    /\ hpc = "optimize" /\ gkey = "B"
    /\ Len(GroupIndex(df, "B")) = 6
    /\ ~C25_Extracted(GroupIndex(df, "B")[2])
    /\ Len(hlog.iv_calls) = 6
    /\ Len(helpers) = 5
    /\ helpers[2].idx = GroupIndex(df, "B")[3]

----------------------------------------------------------------------------
(* Claims about _retry, checked under SpecRetry *)

\* the positions of the log at which fn was called
C26_Calls == {k \in DOMAIN rt.log : rt.log[k].kind # "sleep"}

C26_Sleeps == {k \in DOMAIN rt.log : rt.log[k].kind = "sleep"}

\* call k failed with an error that looks like a rate-limit error
C26_Transient(k) == rt.log[k].kind = "error" /\ _is_rate_limit_error(rt.log[k])

C26_Last == rt.log[Len(rt.log)]

----------------------------------------------------------------------------
(* Claims about the rounds of multi_fetcher, checked under SpecFetchFair *)

\* the rounds in which ticker t was fetched are increasing: no round twice
C27_OncePerRound(t) ==
    LET rs == flog[t].rounds
    IN  /\ \A k \in DOMAIN rs : rs[k] \in 1..round
        /\ \A k \in DOMAIN rs : k > 1 => rs[k - 1] < rs[k]

C27_Rounds ==
    /\ round <= cfg.retry_rounds
    /\ \A t \in DOMAIN flog :
          /\ C27_OncePerRound(t)
          /\ flog[t].gone # 0 =>
                /\ flog[t].rounds # <<>>
                /\ flog[t].rounds[Len(flog[t].rounds)] = flog[t].gone
                /\ t \notin remaining
          /\ flog[t].calls <= 1 /\ flog[t].puts <= 1
          /\ (flog[t].calls + flog[t].puts > 0) => t \in fetched
    /\ fpc \notin {"idle", "call"} =>
          DOMAIN flog = {Normalize(cfg.ticker_array[k]) :
                            k \in 1..Len(cfg.ticker_array)} \ {""}

\* C27: multi_fetcher ends after at most retry_rounds rounds; it fetches a
\* ticker at most once in a round, and never again after a round in which
\* the fetch succeeded or the ticker was removed; each distinct ticker, after
\* upper-casing and de-duplication, adds its call frame and its put frame to
\* the output at most once.
C27_BoundedRounds ==
    /\ []C27_Rounds
    /\ <>(fpc = "done")

C27_Witness ==
    /\ fpc = "done" /\ round = MaxRetryRounds
    /\ cfg.ticker_array = <<"A", "a">>
    /\ flog["A"].rounds = <<1, 2, 3>> /\ flog["A"].gone = 3
    /\ flog["A"].calls = 1 /\ flog["A"].puts = 1

====
